---- MODULE Spec2Model ----
(***************************************************************************)
(* Verification model of the zkUSD transaction scripts:                    *)
(*   scripts/build_reveal_tx.py     (reveal transaction builder)           *)
(*   scripts/sign-and-broadcast.py  (BIP143 signer and broadcaster)        *)
(*   scripts/generate-wallet.py     (wallet generator, address and WIF)    *)
(*   scripts/archive/prove-mint-zkusd.py  (prover request and broadcast)  *)
(*                                                                         *)
(* Conventions.                                                            *)
(*  - A byte string is a sequence of integers 0..255.  A hex string of the *)
(*    scripts is modelled by the byte string it denotes.                   *)
(*  - SHA-256 and RIPEMD-160 are not computed.  A digest embedded in a     *)
(*    byte string is a symbolic chunk [h |-> name, d |-> hashed data]; a   *)
(*    digest read as an integer is any value of 0..MaxDigest.              *)
(*    A digest whose bytes are used (hash160 in an address, the checksum  *)
(*    of a WIF) is any member of a small set of byte strings.              *)
(*  - The secp256k1 parameters p, n, Gx, Gy of sign_segwit_input are       *)
(*    scaled down to the curve y^2 = x^3 + 7 over GF(13), whose group has  *)
(*    prime order 7, so that scalar multiplication can be enumerated.      *)
(*  - External tools (bitcoin-cli, the HTTP endpoint) answer               *)
(*    nondeterministically within what their interface allows.             *)
(***************************************************************************)
EXTENDS Integers, Sequences, FiniteSets, TLC

\* ------------------------------------------------------------------------
\* Byte-string helpers (Python bytes semantics)
\* ------------------------------------------------------------------------

Min(a, b) == IF a < b THEN a ELSE b

\* data[a:b] for 0 <= a: a slice that runs past the end is cut, never an error
Slice(data, a, b) == SubSeq(data, a + 1, Min(b, Len(data)))

\* data[::-1]
Reverse(s) == [i \in 1..Len(s) |-> s[Len(s) + 1 - i]]

\* bytes(k): k zero bytes
Zeros(k) == [i \in 1..k |-> 0]

RECURSIVE to_bytes_le(_, _)
\* n.to_bytes(w, 'little') for an n that fits
to_bytes_le(n, w) ==
    IF w = 0 THEN <<>> ELSE <<n % 256>> \o to_bytes_le(n \div 256, w - 1)

\* n.to_bytes(w, 'big')
to_bytes_be(n, w) == Reverse(to_bytes_le(n, w))

RECURSIVE from_bytes_le(_)
\* int.from_bytes(b, 'little'); the empty string gives 0
from_bytes_le(b) ==
    IF b = <<>> THEN 0 ELSE b[1] + 256 * from_bytes_le(Tail(b))

RECURSIVE SumSeq(_)
SumSeq(s) == IF s = <<>> THEN 0 ELSE s[1] + SumSeq(Tail(s))

RECURSIVE Flatten(_)
\* b''.join(parts)
Flatten(parts) ==
    IF parts = <<>> THEN <<>> ELSE parts[1] \o Flatten(Tail(parts))

\* ------------------------------------------------------------------------
\* Constants of build_reveal_tx.py
\* ------------------------------------------------------------------------

COMMIT_TXID ==
    <<
    131, 57, 192, 68, 128, 38, 159, 218, 228, 17, 74, 37, 242, 80, 175, 66, 121, 251, 96, 74, 238, 223, 215, 160,
    72, 174, 109, 125, 24, 190, 202, 26 >>

COMMIT_WITNESS_SIG ==
    <<
    210, 164, 9, 221, 149, 124, 244, 168, 6, 34, 70, 248, 212, 189, 210, 142, 10, 243, 174, 192, 235, 221, 129, 67,
    5, 237, 206, 118, 192, 19, 146, 103, 153, 230, 199, 127, 170, 44, 252, 50, 79, 171, 197, 184, 224, 81, 149, 98,
    215, 47, 103, 166, 224, 107, 120, 194, 6, 109, 190, 175, 120, 108, 34, 110, 129 >>

COMMIT_WITNESS_SCRIPT ==
    <<
    0, 99, 5, 115, 112, 101, 108, 108, 77, 8, 2, 130, 163, 103, 118, 101, 114, 115, 105, 111, 110, 8, 98, 116,
    120, 161, 100, 111, 117, 116, 115, 129, 161, 0, 165, 101, 112, 114, 105, 99, 101, 164, 101, 112, 114, 105, 99, 101,
    27, 0, 0, 9, 24, 78, 114, 160, 0, 111, 116, 105, 109, 101, 115, 116, 97, 109, 112, 95, 98, 108, 111, 99,
    107, 0, 102, 115, 111, 117, 114, 99, 101, 100, 77, 111, 99, 107, 106, 99, 111, 110, 102, 105, 100, 101, 110, 99,
    101, 24, 100, 104, 111, 112, 101, 114, 97, 116, 111, 114, 152, 32, 24, 213, 24, 79, 24, 168, 24, 49, 24, 172,
    24, 25, 24, 87, 24, 76, 24, 85, 3, 24, 241, 24, 203, 24, 213, 5, 24, 147, 24, 74, 11, 24, 171, 24,
    60, 24, 238, 0, 0, 0, 0, 0, 0, 0, 0, 0, 0, 0, 0, 101, 97, 100, 109, 105, 110, 152, 32, 24,
    213, 24, 79, 24, 168, 24, 49, 24, 172, 24, 25, 24, 87, 24, 76, 24, 85, 3, 24, 241, 24, 203, 24, 213,
    5, 24, 147, 24, 74, 11, 24, 171, 24, 60, 24, 238, 0, 0, 0, 0, 0, 0, 0, 0, 0, 0, 0, 0,
    105, 105, 115, 95, 97, 99, 116, 105, 118, 101, 245, 112, 108, 97, 115, 116, 95, 118, 97, 108, 105, 100, 95, 112,
    114, 105, 99, 101, 27, 0, 0, 9, 24, 78, 114, 160, 0, 113, 97, 112, 112, 95, 112, 117, 98, 108, 105, 99,
    95, 105, 110, 112, 117, 116, 115, 161, 131, 97, 110, 152, 32, 24, 96, 24, 111, 24, 180, 24, 197, 24, 69, 13,
    24, 94, 24, 172, 7, 24, 179, 22, 24, 102, 24, 77, 24, 40, 24, 136, 24, 145, 24, 200, 24, 40, 19, 24,
    167, 24, 229, 4, 24, 245, 24, 164, 24, 168, 24, 105, 5, 24, 41, 24, 136, 24, 245, 4, 24, 169, 152, 32,
    24, 180, 24, 77, 24, 176, 24, 122, 24, 193, 24, 105, 24, 119, 4, 24, 234, 24, 113, 24, 112, 24, 244, 24,
    232, 24, 87, 24, 197, 12, 24, 69, 24, 69, 24, 240, 24, 222, 0, 24, 223, 24, 204, 17, 24, 131, 24, 93,
    24, 198, 24, 239, 24, 176, 24, 194, 24, 124, 24, 50, 246, 153, 1, 4, 24, 164, 24, 89, 24, 76, 24, 89,
    6, 24, 162, 24, 232, 24, 251, 24, 247, 24, 192, 24, 254, 24, 177, 24, 58, 24, 244, 24, 196, 24, 216, 24,
    249, 24, 254, 24, 35, 24, 79, 24, 70, 24, 89, 24, 192, 24, 92, 24, 148, 24, 144, 24, 177, 24, 250, 24,
    48, 24, 218, 24, 115, 16, 24, 225, 24, 152, 24, 73, 6, 24, 45, 24, 202, 24, 135, 24, 215, 24, 72, 24,
    234, 24, 181, 24, 147, 24, 200, 0, 24, 202, 24, 55, 23, 24, 215, 24, 137, 24, 142, 24, 134, 24, 44, 24,
    128, 24, 37, 24, 31, 24, 81, 4, 24, 78, 24, 154, 24, 137, 4, 24, 41, 11, 24, 219, 24, 235, 24, 213,
    4, 24, 103, 77, 102, 1, 24, 35, 24, 230, 24, 152, 24, 99, 8, 24, 107, 24, 187, 24, 68, 24, 218, 23,
    24, 29, 24, 100, 24, 169, 24, 139, 24, 218, 24, 104, 24, 211, 24, 178, 24, 122, 24, 49, 24, 32, 24, 171,
    24, 128, 24, 133, 24, 125, 4, 24, 84, 24, 193, 24, 118, 24, 159, 24, 34, 24, 84, 24, 29, 20, 24, 249,
    24, 37, 24, 190, 24, 200, 24, 217, 24, 251, 24, 196, 24, 35, 24, 30, 24, 130, 24, 180, 24, 197, 24, 25,
    24, 154, 24, 39, 24, 140, 24, 230, 24, 124, 24, 139, 24, 251, 24, 122, 24, 31, 24, 122, 24, 165, 24, 186,
    24, 86, 24, 149, 24, 146, 24, 34, 24, 155, 24, 140, 24, 172, 24, 45, 24, 33, 24, 112, 24, 125, 24, 122,
    24, 243, 24, 96, 9, 24, 140, 5, 24, 239, 24, 90, 24, 183, 24, 178, 24, 175, 24, 162, 24, 61, 24, 164,
    24, 183, 24, 244, 24, 203, 24, 242, 12, 10, 24, 188, 24, 82, 24, 140, 24, 231, 24, 26, 24, 230, 9, 24,
    81, 24, 208, 24, 165, 24, 193, 24, 113, 24, 177, 24, 136, 24, 57, 24, 249, 24, 201, 24, 136, 24, 31, 24,
    226, 24, 171, 24, 46, 24, 244, 24, 108, 17, 7, 10, 24, 233, 24, 52, 24, 148, 24, 154, 24, 40, 1, 11,
    24, 33, 16, 24, 28, 24, 142, 7, 24, 98, 24, 33, 24, 142, 24, 83, 24, 202, 1, 24, 229, 24, 147, 24,
    234, 24, 215, 24, 34, 24, 186, 24, 169, 24, 172, 24, 169, 24, 61, 24, 32, 24, 26, 24, 213, 24, 160, 24,
    80, 24, 165, 24, 164, 24, 137, 24, 100, 24, 53, 24, 35, 24, 170, 24, 104, 3, 24, 200, 24, 124, 24, 215,
    24, 76, 24, 230, 23, 24, 97, 24, 178, 5, 24, 177, 24, 59, 24, 235, 24, 133, 24, 146, 24, 224, 24, 192,
    24, 39, 24, 213, 24, 142, 9, 24, 211, 24, 59, 24, 155, 24, 192, 24, 82, 24, 163, 15, 24, 191, 24, 73,
    24, 162, 24, 36, 104, 32, 152, 229, 41, 142, 37, 121, 20, 137, 60, 3, 181, 52, 120, 170, 67, 223, 2, 93,
    239, 17, 230, 166, 130, 10, 17, 68, 39, 208, 249, 194, 229, 197, 172 >>

COMMIT_WITNESS_CONTROL ==
    <<
    192, 152, 229, 41, 142, 37, 121, 20, 137, 60, 3, 181, 52, 120, 170, 67, 223, 2, 93, 239, 17, 230, 166, 130,
    10, 17, 68, 39, 208, 249, 194, 229, 197 >>

WALLET_PUBKEY ==
    <<
    3, 89, 49, 238, 222, 93, 102, 225, 243, 41, 249, 233, 225, 219, 187, 64, 198, 155, 3, 7, 30, 73, 97, 65,
    140, 106, 169, 147, 131, 252, 242, 242, 131 >>

WALLET_SCRIPTHASH ==
    <<
    0, 20, 26, 169, 245, 6, 53, 131, 42, 233, 138, 160, 126, 57, 122, 160, 178, 105, 65, 117, 103, 157 >>

PROTOCOL_SCRIPT ==
    <<
    0, 20, 29, 180, 222, 209, 15, 161, 85, 3, 107, 251, 64, 113, 126, 166, 128, 34, 190, 137, 159, 187 >>

COMMIT_VALUE == 499778

COMMIT_WITNESS ==
    << COMMIT_WITNESS_SIG, COMMIT_WITNESS_SCRIPT, COMMIT_WITNESS_CONTROL >>

WALLET_ADDRESS == "tb1qr25l2p34sv4wnz4q0cuh4g9jd9qh2eua6y5awq"

PROTOCOL_ADDRESS == "tb1qrk6da5g0592sx6lmgpchaf5qy2lgn8am7cuf3a"

OUTPUTS ==
    << [address |-> WALLET_ADDRESS,   value |-> 547],
       [address |-> PROTOCOL_ADDRESS, value |-> 1434],
       [address |-> WALLET_ADDRESS,   value |-> 996853] >>

TOTAL_OUTPUTS == SumSeq([i \in 1..Len(OUTPUTS) |-> OUTPUTS[i].value])

\* ------------------------------------------------------------------------
\* Varint codec
\* ------------------------------------------------------------------------

\* build_reveal_tx.py encode_varint.  Lengths of the model stay below 2^31,
\* so the 0xff branch (n > 0xffffffff) is out of the integer range.
encode_varint(n) ==
    IF n < 253 THEN <<n>>
    ELSE IF n <= 65535 THEN <<253>> \o to_bytes_le(n, 2)
    ELSE <<254>> \o to_bytes_le(n, 4)

\* sign-and-broadcast.py encode_varint (the same function)
sb_encode_varint(n) ==
    IF n < 253 THEN <<n>>
    ELSE IF n <= 65535 THEN <<253>> \o to_bytes_le(n, 2)
    ELSE <<254>> \o to_bytes_le(n, 4)

\* bytes.fromhex(txid)[::-1]
reverse_txid(t) == Reverse(t)

encode_witness_element(data) == encode_varint(Len(data)) \o data

\* ------------------------------------------------------------------------
\* Wire format of a transaction, as the external tools (bitcoin-cli
\* createrawtransaction / signrawtransactionwithkey / decoderawtransaction)
\* write and read it.  A transaction is a record
\*   [version, inputs, outputs, witness, locktime]
\* with inputs [txid, vout, script_sig, sequence] (txid in display order),
\* outputs [value, script_pubkey] and one witness stack per input.
\* ------------------------------------------------------------------------

EncodeInput(inp) ==
    Reverse(inp.txid) \o to_bytes_le(inp.vout, 4)
        \o encode_varint(Len(inp.script_sig)) \o inp.script_sig \o inp.sequence

EncodeOutput(out) ==
    out.value \o encode_varint(Len(out.script_pubkey)) \o out.script_pubkey

EncodeStack(stack) ==
    encode_varint(Len(stack))
        \o Flatten([j \in 1..Len(stack) |->
                       encode_varint(Len(stack[j])) \o stack[j]])

\* section: whether marker, flag and the witness section are written
EncodeTx(tx, section) ==
    tx.version
        \o (IF section THEN <<0, 1>> ELSE <<>>)
        \o encode_varint(Len(tx.inputs))
        \o Flatten([i \in 1..Len(tx.inputs) |-> EncodeInput(tx.inputs[i])])
        \o encode_varint(Len(tx.outputs))
        \o Flatten([i \in 1..Len(tx.outputs) |-> EncodeOutput(tx.outputs[i])])
        \o (IF section
            THEN Flatten([i \in 1..Len(tx.witness) |-> EncodeStack(tx.witness[i])])
            ELSE <<>>)
        \o tx.locktime

HasWitness(tx) == \E i \in 1..Len(tx.witness) : tx.witness[i] # <<>>

\* serialize(tx, includeWitness): marker and flag only when a witness is non-empty
SerializeTx(tx, includeWitness) == EncodeTx(tx, includeWitness /\ HasWitness(tx))

\* Strict readers: [ok, val, off]; a read past the end fails.
ReadFail == [ok |-> FALSE, val |-> <<>>, off |-> 0]

ReadBytes(data, off, k) ==
    IF off + k <= Len(data)
    THEN [ok |-> TRUE, val |-> Slice(data, off, off + k), off |-> off + k]
    ELSE ReadFail

\* Compact size, canonical encodings only.  Every byte string of the model is
\* shorter than 2^16, so a 0xfe or 0xff prefix is either non-canonical or
\* announces more than the data holds: both are rejected.
ReadVarint(data, off) ==
    IF off >= Len(data) THEN ReadFail
    ELSE LET fb == data[off + 1] IN
         IF fb < 253 THEN [ok |-> TRUE, val |-> fb, off |-> off + 1]
         ELSE IF fb = 253 /\ off + 3 <= Len(data)
                 /\ from_bytes_le(Slice(data, off + 1, off + 3)) >= 253
         THEN [ok |-> TRUE, val |-> from_bytes_le(Slice(data, off + 1, off + 3)),
               off |-> off + 3]
         ELSE ReadFail

ReadLen(data, n) ==
    IF n.ok THEN ReadBytes(data, n.off, n.val) ELSE ReadFail

\* a field of k bytes (kind k >= 0) or a length-prefixed field (kind -1)
ReadField(data, off, kind) ==
    IF kind >= 0 THEN ReadBytes(data, off, kind)
    ELSE ReadLen(data, ReadVarint(data, off))

ReadAppend(a, b) ==
    IF b.ok THEN [ok |-> TRUE, val |-> a.val \o b.val, off |-> b.off]
    ELSE ReadFail

ReadWrap(a) ==
    IF a.ok THEN [ok |-> TRUE, val |-> <<a.val>>, off |-> a.off] ELSE ReadFail

RECURSIVE ReadFields(_, _, _)
ReadNext(data, kinds, f) ==
    IF f.ok THEN ReadAppend(ReadWrap(f), ReadFields(data, f.off, Tail(kinds)))
    ELSE ReadFail

\* the fields of the given kinds, one after the other, from off
ReadFields(data, off, kinds) ==
    IF kinds = <<>> THEN [ok |-> TRUE, val |-> <<>>, off |-> off]
    ELSE ReadNext(data, kinds, ReadField(data, off, kinds[1]))

RECURSIVE ReadMany(_, _, _, _)
ReadStackItems(data, n) ==
    IF n.ok THEN ReadWrap(ReadMany(data, n.off, n.val, <<-1>>)) ELSE ReadFail

\* one witness stack: an item count, then that many length-prefixed items
ReadStack(data, off) == ReadStackItems(data, ReadVarint(data, off))

ReadSecondHalf(data, count, kinds, a) ==
    IF a.ok
    THEN ReadAppend(a, ReadMany(data, a.off, count - (count \div 2), kinds))
    ELSE ReadFail

\* count records in a row, each the fields of the given kinds (the values of
\* all records in one list) or, for kinds <<>>, a witness stack.  The count
\* is halved at each level, which keeps the evaluation shallow; a record
\* holds a byte at least.
ReadMany(data, off, count, kinds) ==
    IF count > Len(data) - off THEN ReadFail
    ELSE IF count = 0 THEN [ok |-> TRUE, val |-> <<>>, off |-> off]
    ELSE IF count = 1
    THEN (IF kinds = <<>> THEN ReadStack(data, off)
          ELSE ReadFields(data, off, kinds))
    ELSE ReadSecondHalf(data, count, kinds,
                        ReadMany(data, off, count \div 2, kinds))

NoTx == [ok |-> FALSE, version |-> <<>>, inputs |-> <<>>, outputs |-> <<>>,
         witness |-> <<>>, locktime |-> <<>>]

\* a vout of 2^31 or more is outside the integer range of the model
DecodedInput(f, i) ==
    [txid       |-> Reverse(SubSeq(f[3 * i - 2], 1, 32)),
     vout       |-> IF f[3 * i - 2][36] < 128
                    THEN from_bytes_le(SubSeq(f[3 * i - 2], 33, 36)) ELSE -1,
     script_sig |-> f[3 * i - 1],
     sequence   |-> f[3 * i]]

DecodedOutput(f, i) == [value |-> f[2 * i - 1], script_pubkey |-> f[2 * i]]

DecodeEnd(data, section, nin, ins, nout, outs, wit, lock) ==
    IF lock.ok /\ lock.off = Len(data)
       /\ (section => \E i \in 1..Len(wit.val) : wit.val[i] # <<>>)
    THEN [ok       |-> TRUE,
          version  |-> Slice(data, 0, 4),
          inputs   |-> [i \in 1..nin.val |-> DecodedInput(ins.val, i)],
          outputs  |-> [i \in 1..nout.val |-> DecodedOutput(outs.val, i)],
          witness  |-> wit.val,
          locktime |-> lock.val]
    ELSE NoTx

DecodeLock(data, section, nin, ins, nout, outs, wit) ==
    IF wit.ok
    THEN DecodeEnd(data, section, nin, ins, nout, outs, wit,
                   ReadBytes(data, wit.off, 4))
    ELSE NoTx

DecodeWitness(data, section, nin, ins, nout, outs) ==
    IF outs.ok
    THEN DecodeLock(data, section, nin, ins, nout, outs,
                    IF section THEN ReadMany(data, outs.off, nin.val, <<>>)
                    ELSE [ok |-> TRUE, val |-> [i \in 1..nin.val |-> <<>>],
                          off |-> outs.off])
    ELSE NoTx

DecodeOutputs(data, section, nin, ins, nout) ==
    IF nout.ok
    THEN DecodeWitness(data, section, nin, ins, nout,
                       ReadMany(data, nout.off, nout.val, <<8, -1>>))
    ELSE NoTx

DecodeOutputCount(data, section, nin, ins) ==
    IF ins.ok
    THEN DecodeOutputs(data, section, nin, ins, ReadVarint(data, ins.off))
    ELSE NoTx

DecodeInputs(data, section, nin) ==
    IF nin.ok
    THEN DecodeOutputCount(data, section, nin,
                           ReadMany(data, nin.off, nin.val, <<36, -1, 4>>))
    ELSE NoTx

DecodeBody(data, section) ==
    DecodeInputs(data, section, ReadVarint(data, IF section THEN 6 ELSE 4))

\* decoderawtransaction: the whole string must be one transaction, with no
\* byte left over; a marker and flag with only empty stacks are refused.
DecodeTx(data) ==
    IF Len(data) < 4 THEN NoTx
    ELSE DecodeBody(data, Len(data) >= 6 /\ data[5] = 0 /\ data[6] = 1)

\* ------------------------------------------------------------------------
\* build_reveal_tx.py
\* ------------------------------------------------------------------------

MaxVout == 1

\* a 32-byte txid whose bytes differ from one another (reversal is visible)
TxidOf(b) == [i \in 1..32 |-> (16 * b + i) % 256]

FundingTxids == { TxidOf(1), TxidOf(2), COMMIT_TXID }

\* around the threshold TOTAL_OUTPUTS - COMMIT_VALUE = 499056
FundingValues == { 0, 499055, 499056, 500000 }

\* a 71-byte DER signature with its sighash byte, as bitcoin-cli returns one
SigA ==
    <<48, 68, 2, 32>> \o [i \in 1..32 |-> 16 + i] \o <<2, 32>>
        \o [i \in 1..32 |-> 64 + i] \o <<1>>

\* witness stacks the signing tool may leave on the funding input
FundingWitnessChoices ==
    { <<>>, <<SigA>>, <<SigA, WALLET_PUBKEY>>, <<SigA, WALLET_PUBKEY, <<1>>>> }

SEQUENCE_FINAL == <<255, 255, 255, 255>>

\* the characters of an address after "tb1", as their values in the bech32
\* alphabet qpzry9x8gf2tvdw0s3jn54khce6mua7l: witness version, program, checksum
AddressData(address) ==
    IF address = WALLET_ADDRESS
    THEN << 0, 3, 10, 20, 31, 10, 1, 17, 21, 16, 12, 21, 14, 19, 2, 21, 0, 15, 24, 28, 23, 21, 8, 5, 18, 13, 5, 0, 23, 10, 25, 28, 29, 26, 4, 20, 29, 14, 0 >>
    ELSE IF address = PROTOCOL_ADDRESS
    THEN << 0, 3, 22, 26, 13, 29, 20, 8, 15, 20, 5, 10, 16, 6, 26, 31, 27, 8, 1, 24, 23, 29, 9, 20, 0, 4, 10, 31, 8, 19, 7, 29, 27, 30, 24, 28, 9, 17, 29 >>
    ELSE <<>>

\* bit n (from 0, most significant first) of a string of 5-bit values
BitAt(d, n) == (d[(n \div 5) + 1] \div (2 ^ (4 - (n % 5)))) % 2

\* the 8-bit regrouping of 5-bit values whose bits fill whole bytes
Regroup8(d) ==
    [i \in 1..((5 * Len(d)) \div 8) |->
       SumSeq([b \in 1..8 |-> BitAt(d, 8 * (i - 1) + b - 1) * (2 ^ (8 - b))])]

\* address_to_scriptpubkey: bitcoin-cli validateaddress gives the scriptPubKey
\* of a tb1q address: the witness version, the push of the program and the
\* program its characters encode; any other address gives "".
address_to_scriptpubkey(address) ==
    IF AddressData(address) = <<>> THEN <<>>
    ELSE << AddressData(address)[1], ((Len(AddressData(address)) - 7) * 5) \div 8 >>
             \o Regroup8(SubSeq(AddressData(address), 2,
                                Len(AddressData(address)) - 6))

\* build_transaction: raises ValueError or returns the transaction hex
build_transaction(funding_txid, funding_vout, funding_value, funding_witness_hex) ==
    LET total_in == funding_value + COMMIT_VALUE IN
    IF total_in < TOTAL_OUTPUTS
    THEN [raised |-> TRUE, hex |-> <<>>,
          err |-> [kind |-> "InsufficientFunds",
                   numbers |-> <<total_in, TOTAL_OUTPUTS>>]]
    ELSE [raised |-> FALSE,
          err |-> [kind |-> "", numbers |-> <<>>],
          hex |->
            to_bytes_le(2, 4)
            \o <<0, 1>>
            \o encode_varint(2)
            \o reverse_txid(funding_txid) \o to_bytes_le(funding_vout, 4)
                \o <<0>> \o SEQUENCE_FINAL
            \o reverse_txid(COMMIT_TXID) \o to_bytes_le(0, 4)
                \o <<0>> \o SEQUENCE_FINAL
            \o encode_varint(Len(OUTPUTS))
            \o Flatten([i \in 1..Len(OUTPUTS) |->
                 LET script == address_to_scriptpubkey(OUTPUTS[i].address) IN
                 to_bytes_le(OUTPUTS[i].value, 8)
                     \o encode_varint(Len(script)) \o script])
            \o funding_witness_hex
            \o encode_varint(3)
            \o Flatten([j \in 1..Len(COMMIT_WITNESS) |->
                 encode_witness_element(COMMIT_WITNESS[j])])
            \o to_bytes_le(0, 4)]

\* sign_funding_input: the transaction bitcoin-cli createrawtransaction makes
\* of the two outpoints and OUTPUTS (amounts are the same satoshi values,
\* passed as BTC decimals), before signing
cli_unsigned_tx(funding_txid, funding_vout) ==
    [version  |-> to_bytes_le(2, 4),
     inputs   |-> << [txid |-> funding_txid, vout |-> funding_vout,
                      script_sig |-> <<>>, sequence |-> <<253, 255, 255, 255>>],
                     [txid |-> COMMIT_TXID, vout |-> 0,
                      script_sig |-> <<>>, sequence |-> <<253, 255, 255, 255>>] >>,
     outputs  |-> [i \in 1..3 |->
                     [value |-> to_bytes_le(OUTPUTS[i].value, 8),
                      script_pubkey |-> address_to_scriptpubkey(OUTPUTS[i].address)]],
     witness  |-> << <<>>, <<>> >>,
     locktime |-> to_bytes_le(0, 4)]

\* sign_funding_input: signrawtransactionwithkey leaves stack w on input 0 and
\* nothing on the taproot input; the result hex
sign_funding_input(funding_txid, funding_vout, w) ==
    SerializeTx([cli_unsigned_tx(funding_txid, funding_vout)
                    EXCEPT !.witness = << w, <<>> >>], TRUE)

\* main, lines 276-284: the scriptPubKey written for an output
main_output_script(address) ==
    IF address = WALLET_ADDRESS THEN WALLET_SCRIPTHASH ELSE PROTOCOL_SCRIPT

\* a main that writes the commit signature without its sighash type byte
main_final_tx_resigned(tx_bytes, txid_, vout_, fw) ==
    Slice(tx_bytes, 0, 4)
    \o <<0, 1>>
    \o <<2>>
    \o reverse_txid(txid_) \o to_bytes_le(vout_, 4) \o <<0>> \o SEQUENCE_FINAL
    \o reverse_txid(COMMIT_TXID) \o to_bytes_le(0, 4) \o <<0>> \o SEQUENCE_FINAL
    \o <<3>>
    \o Flatten([i \in 1..Len(OUTPUTS) |->
         LET script == main_output_script(OUTPUTS[i].address) IN
         to_bytes_le(OUTPUTS[i].value, 8) \o <<Len(script)>> \o script])
    \o <<2>>
    \o Flatten([j \in 1..Len(fw) |-> encode_varint(Len(fw[j])) \o fw[j]])
    \o <<3>>
    \o <<64>> \o SubSeq(COMMIT_WITNESS[1], 1, 64)
    \o Flatten([j \in 1..(Len(COMMIT_WITNESS) - 1) |->
         encode_varint(Len(COMMIT_WITNESS[j + 1])) \o COMMIT_WITNESS[j + 1]])
    \o to_bytes_le(0, 4)

\* main, lines 250-303: the final transaction
main_final_tx(tx_bytes, txid_, vout_, fw) ==
    Slice(tx_bytes, 0, 4)
    \o <<0, 1>>
    \o <<2>>
    \o reverse_txid(txid_) \o to_bytes_le(vout_, 4) \o <<0>> \o SEQUENCE_FINAL
    \o reverse_txid(COMMIT_TXID) \o to_bytes_le(0, 4) \o <<0>> \o SEQUENCE_FINAL
    \o <<3>>
    \o Flatten([i \in 1..Len(OUTPUTS) |->
         LET script == main_output_script(OUTPUTS[i].address) IN
         to_bytes_le(OUTPUTS[i].value, 8) \o <<Len(script)>> \o script])
    \o <<2>>
    \o Flatten([j \in 1..Len(fw) |-> encode_varint(Len(fw[j])) \o fw[j]])
    \o <<3>>
    \o Flatten([j \in 1..Len(COMMIT_WITNESS) |->
         encode_varint(Len(COMMIT_WITNESS[j])) \o COMMIT_WITNESS[j]])
    \o to_bytes_le(0, 4)

\* ------------------------------------------------------------------------
\* sign-and-broadcast.py: hashes
\* ------------------------------------------------------------------------

\* A byte string that holds digests is a sequence of chunks: raw bytes
\* [h |-> "raw", d |-> bytes] and digests [h |-> function, d |-> input].
Raw(b) == IF b = <<>> THEN <<>> ELSE << [h |-> "raw", d |-> b] >>

\* the concatenation a + b of two chunked strings; adjacent raw bytes merge
ChunkCat(a, b) ==
    IF a # <<>> /\ b # <<>> /\ a[Len(a)].h = "raw" /\ b[1].h = "raw"
    THEN SubSeq(a, 1, Len(a) - 1)
            \o << [h |-> "raw", d |-> a[Len(a)].d \o b[1].d] >>
            \o Tail(b)
    ELSE a \o b

RECURSIVE ChunkJoin(_)
ChunkJoin(parts) ==
    IF parts = <<>> THEN <<>> ELSE ChunkCat(parts[1], ChunkJoin(Tail(parts)))

\* double_sha256(data), 32 bytes
double_sha256(data) == << [h |-> "double_sha256", d |-> data] >>

\* hash160(data), 20 bytes
hash160(data) == << [h |-> "hash160", d |-> data] >>

ChunkLen(c) ==
    IF c.h = "raw" THEN Len(c.d) ELSE IF c.h = "hash160" THEN 20 ELSE 32

\* len() of a chunked string
ByteLen(cs) == SumSeq([i \in 1..Len(cs) |-> ChunkLen(cs[i])])

\* ------------------------------------------------------------------------
\* sign-and-broadcast.py: secp256k1 arithmetic of sign_segwit_input
\* ------------------------------------------------------------------------

\* the field prime p and the group order n, scaled down (see the header)
curve_p == 13

curve_n == 7

Gx == 8

Gy == 8

G == <<Gx, Gy>>

\* the point at infinity, None in the script
None == <<>>

\* pow(a, -1, m) for an invertible a; [ok |-> FALSE] is its ValueError
mod_inverse(a, m) ==
    IF \E i \in 1..(m - 1) : (i * a) % m = 1
    THEN [ok |-> TRUE, val |-> CHOOSE i \in 1..(m - 1) : (i * a) % m = 1]
    ELSE [ok |-> FALSE, val |-> 0]

\* slope m of point_add for two points with a partner (lines 268-271)
point_slope(p1, p2, prime) ==
    IF p1[1] = p2[1]
    THEN ((3 * p1[1] * p1[1]) * mod_inverse(2 * p1[2], prime).val) % prime
    ELSE ((p2[2] - p1[2]) * mod_inverse(p2[1] - p1[1], prime).val) % prime

point_sum(p1, p2, prime, m) ==
    << (m * m - p1[1] - p2[1]) % prime,
       (m * (p1[1] - ((m * m - p1[1] - p2[1]) % prime)) - p1[2]) % prime >>

\* point_add; the doubling of a point with y = 0 raises in pow(0, -1, prime),
\* which no point of an odd-order group meets
point_add(p1, p2, prime) ==
    IF p1 = None THEN p2
    ELSE IF p2 = None THEN p1
    ELSE IF p1[1] = p2[1] /\ p1[2] # p2[2] THEN None
    ELSE point_sum(p1, p2, prime, point_slope(p1, p2, prime))

RECURSIVE scalar_loop(_, _, _, _)
\* the while loop of scalar_mult
scalar_loop(kk, result, addend, prime) ==
    IF kk = 0 THEN result
    ELSE scalar_loop(kk \div 2,
                     IF kk % 2 = 1 THEN point_add(result, addend, prime)
                     ELSE result,
                     point_add(addend, addend, prime),
                     prime)

scalar_mult(kk, point, prime) == scalar_loop(kk, None, point, prime)

\* privkey_to_pubkey: the library's point privkey * G, compressed to 33
\* bytes; the library has no encoding of the point at infinity (<<>> here)
privkey_to_pubkey(d) ==
    IF scalar_mult(d, G, curve_p) = None THEN <<>>
    ELSE (IF scalar_mult(d, G, curve_p)[2] % 2 = 0 THEN <<2>> ELSE <<3>>)
            \o to_bytes_be(scalar_mult(d, G, curve_p)[1], 32)

\* lines 254-256: the nonce used for a digest k_bytes
nonce_of(kb) == IF kb % curve_n = 0 THEN 1 ELSE kb % curve_n

\* line 289: r = R[0] % n
r_of(kk) == scalar_mult(kk, G, curve_p)[1] % curve_n

\* a signer that leaves the private key out of s
s_raw_without_key(zz, kk, rr, d) ==
    (mod_inverse(kk, curve_n).val * (zz + rr)) % curve_n

\* lines 292-293: s before normalisation
s_raw(zz, kk, rr, d) ==
    (mod_inverse(kk, curve_n).val * (zz + rr * d)) % curve_n

\* a signer without the low-S rule
low_s_skipped(ss) == ss

\* lines 296-297: low S
low_s(ss) == IF ss > curve_n \div 2 THEN curve_n - ss ELSE ss

RECURSIVE to_bytes_min(_)
\* x.to_bytes((x.bit_length() + 7) // 8, 'big'): no byte for 0
to_bytes_min(x) ==
    IF x = 0 THEN <<>> ELSE to_bytes_min(x \div 256) \o <<x % 256>>

\* der_encode_int for x > 0 (x_bytes[0] raises IndexError for x = 0)
der_encode_int(x) ==
    IF to_bytes_min(x)[1] >= 128
    THEN <<2, Len(to_bytes_min(x)) + 1>> \o <<0>> \o to_bytes_min(x)
    ELSE <<2, Len(to_bytes_min(x))>> \o to_bytes_min(x)

\* line 308: the witness signature; SIGHASH_ALL is the only type written
der_signature(rr, ss) ==
    <<48, Len(der_encode_int(rr)) + Len(der_encode_int(ss))>>
        \o der_encode_int(rr) \o der_encode_int(ss) \o <<1>>

\* ------------------------------------------------------------------------
\* sign-and-broadcast.py: the parser of sign_segwit_input (lines 120-192)
\* ------------------------------------------------------------------------

VarintFail == [ok |-> FALSE, value |-> 0, size |-> 0, short |-> FALSE]

\* decode_varint: data[offset] raises IndexError past the end; the slices
\* after it are cut at the end of the data without an error.  short records
\* that a value was returned although fewer bytes remained than the prefix
\* demands.
decode_varint(data, offset) ==
    IF offset >= Len(data) THEN VarintFail
    ELSE IF data[offset + 1] < 253
    THEN [ok |-> TRUE, value |-> data[offset + 1], size |-> 1, short |-> FALSE]
    ELSE IF data[offset + 1] = 253
    THEN [ok |-> TRUE, size |-> 3, short |-> Len(data) - offset < 3,
          value |-> from_bytes_le(Slice(data, offset + 1, offset + 3))]
    ELSE IF data[offset + 1] = 254
    THEN [ok |-> TRUE, size |-> 5, short |-> Len(data) - offset < 5,
          value |-> from_bytes_le(Slice(data, offset + 1, offset + 5))]
    ELSE [ok |-> TRUE, size |-> 9, short |-> Len(data) - offset < 9,
          value |-> from_bytes_le(Slice(data, offset + 1, offset + 9))]

ParseFail == [ok |-> FALSE, val |-> <<>>, off |-> 0, short |-> FALSE]

\* lines 144-159: one input; sl is decode_varint at the script length
parse_input(data, off, sl) ==
    IF ~sl.ok THEN ParseFail
    ELSE [ok  |-> TRUE,
          val |-> << [txid       |-> Reverse(Slice(data, off, off + 32)),
                      vout       |-> from_bytes_le(Slice(data, off + 32, off + 36)),
                      script_sig |-> Slice(data, off + 36 + sl.size,
                                           off + 36 + sl.size + sl.value),
                      sequence   |-> Slice(data, off + 36 + sl.size + sl.value,
                                           off + 36 + sl.size + sl.value + 4)] >>,
          off |-> off + 36 + sl.size + sl.value + 4,
          short |-> sl.short]

\* lines 169-178: one output
parse_output(data, off, sl) ==
    IF ~sl.ok THEN ParseFail
    ELSE [ok  |-> TRUE,
          val |-> << [value         |-> Slice(data, off, off + 8),
                      script_pubkey |-> Slice(data, off + 8 + sl.size,
                                              off + 8 + sl.size + sl.value)] >>,
          off |-> off + 8 + sl.size + sl.value,
          short |-> sl.short]

\* lines 187-189: one witness item is skipped
skip_item(off, sl) ==
    IF ~sl.ok THEN ParseFail
    ELSE [ok |-> TRUE, val |-> <<>>, off |-> off + sl.size + sl.value,
          short |-> sl.short]

ParseAppend(a, b) ==
    IF b.ok
    THEN [ok |-> TRUE, val |-> a.val \o b.val, off |-> b.off,
          short |-> a.short \/ b.short]
    ELSE ParseFail

RECURSIVE parse_loop(_, _, _, _)
\* lines 184-189: the witness stack of one input is skipped
skip_stack(data, off, cnt) ==
    IF ~cnt.ok THEN ParseFail
    ELSE ParseAppend([ok |-> TRUE, val |-> <<>>, off |-> off, short |-> cnt.short],
                     parse_loop(data, off + cnt.size, cnt.value, "item"))

parse_rest(data, count, kind, a) ==
    IF a.ok
    THEN ParseAppend(a, parse_loop(data, a.off, count - (count \div 2), kind))
    ELSE ParseFail

\* a for loop over count inputs, outputs, witness items or witness stacks,
\* from off; it stops at the first IndexError.  The count is halved at each
\* level, which keeps the evaluation shallow.
parse_loop(data, off, count, kind) ==
    IF count <= 0 THEN [ok |-> TRUE, val |-> <<>>, off |-> off, short |-> FALSE]
    ELSE IF count = 1
    THEN (IF kind = "input"
          THEN parse_input(data, off, decode_varint(data, off + 36))
          ELSE IF kind = "output"
          THEN parse_output(data, off, decode_varint(data, off + 8))
          ELSE IF kind = "item"
          THEN skip_item(off, decode_varint(data, off))
          ELSE skip_stack(data, off, decode_varint(data, off)))
    ELSE parse_rest(data, count, kind, parse_loop(data, off, count \div 2, kind))

NoParse ==
    [ok |-> FALSE, version |-> <<>>, has_witness |-> FALSE,
     num_inputs |-> 0, inputs |-> <<>>, num_outputs |-> 0, outputs |-> <<>>,
     outputs_raw |-> <<>>, locktime |-> <<>>, short |-> FALSE]

\* line 179: outputs_raw
outputs_raw_of(outs) ==
    Flatten([i \in 1..Len(outs) |->
               outs[i].value \o sb_encode_varint(Len(outs[i].script_pubkey))
                   \o outs[i].script_pubkey])

parse_end(data, hw, nin, ins, nout, outs, wit) ==
    IF ~wit.ok THEN NoParse
    ELSE [ok          |-> TRUE,
          version     |-> Slice(data, 0, 4),
          has_witness |-> hw,
          num_inputs  |-> nin.value,
          inputs      |-> ins.val,
          num_outputs |-> nout.value,
          outputs     |-> outs.val,
          outputs_raw |-> outputs_raw_of(outs.val),
          short       |-> nin.short \/ ins.short \/ nout.short \/ outs.short
                             \/ wit.short,
          \* tx_bytes[-4:]
          locktime    |-> SubSeq(data, IF Len(data) > 4 THEN Len(data) - 3 ELSE 1,
                                 Len(data))]

parse_witness(data, hw, nin, ins, nout, outs) ==
    IF ~outs.ok THEN NoParse
    ELSE parse_end(data, hw, nin, ins, nout, outs,
                   IF hw THEN parse_loop(data, outs.off, nin.value, "stack")
                   ELSE [ok |-> TRUE, val |-> <<>>, off |-> outs.off,
                         short |-> FALSE])

parse_outputs(data, hw, nin, ins, nout) ==
    IF ~nout.ok THEN NoParse
    ELSE parse_witness(data, hw, nin, ins, nout,
                       parse_loop(data, ins.off + nout.size, nout.value, "output"))

parse_output_count(data, hw, nin, ins) ==
    IF ~ins.ok THEN NoParse
    ELSE parse_outputs(data, hw, nin, ins, decode_varint(data, ins.off))

parse_inputs(data, hw, base, nin) ==
    IF ~nin.ok THEN NoParse
    ELSE parse_output_count(data, hw, nin,
                            parse_loop(data, base + nin.size, nin.value, "input"))

\* a parser that reads the input count right after the version
parse_body_unmarked(data, hw) ==
    parse_inputs(data, hw, 4, decode_varint(data, 4))

\* lines 130-139, then the rest of the parse
parse_body(data, hw) ==
    parse_inputs(data, hw, IF hw THEN 6 ELSE 4,
                 decode_varint(data, IF hw THEN 6 ELSE 4))

\* lines 126-192; NoParse is an IndexError
parse_tx(data) == parse_body(data, Slice(data, 4, 6) = <<0, 1>>)

\* ------------------------------------------------------------------------
\* sign-and-broadcast.py: BIP143 preimage (lines 194-233) and the signed
\* transaction (lines 310-345)
\* ------------------------------------------------------------------------

\* lines 199-201
prevouts_of(ins) ==
    Flatten([i \in 1..Len(ins) |->
               Reverse(ins[i].txid) \o to_bytes_le(ins[i].vout, 4)])

\* lines 206-208
sequences_of(ins) == Flatten([i \in 1..Len(ins) |-> ins[i].sequence])

\* line 216
script_code_of(pubkey) ==
    ChunkJoin(<< Raw(<<25, 118, 169, 20>>), hash160(pubkey), Raw(<<136, 172>>) >>)

\* a preimage with value and sequence in the other order
bip143_value_after_sequence(ptx, idx, ptxid, pvout, pvalue, pubkey) ==
    ChunkJoin(<< Raw(ptx.version),
                 double_sha256(prevouts_of(ptx.inputs)),
                 double_sha256(sequences_of(ptx.inputs)),
                 Raw(Reverse(ptxid) \o to_bytes_le(pvout, 4)),
                 script_code_of(pubkey),
                 Raw(ptx.inputs[idx + 1].sequence),
                 Raw(to_bytes_le(pvalue, 8)),
                 double_sha256(ptx.outputs_raw),
                 Raw(ptx.locktime),
                 Raw(<<1, 0, 0, 0>>) >>)

\* the preimage, for an index within the inputs
bip143_preimage(ptx, idx, ptxid, pvout, pvalue, pubkey) ==
    ChunkJoin(<< Raw(ptx.version),
                 double_sha256(prevouts_of(ptx.inputs)),
                 double_sha256(sequences_of(ptx.inputs)),
                 Raw(Reverse(ptxid) \o to_bytes_le(pvout, 4)),
                 script_code_of(pubkey),
                 Raw(to_bytes_le(pvalue, 8)),
                 Raw(ptx.inputs[idx + 1].sequence),
                 double_sha256(ptx.outputs_raw),
                 Raw(ptx.locktime),
                 Raw(<<1, 0, 0, 0>>) >>)

\* lines 316-320
signed_inputs(ptx) ==
    Flatten([i \in 1..Len(ptx.inputs) |->
               Reverse(ptx.inputs[i].txid) \o to_bytes_le(ptx.inputs[i].vout, 4)
                   \o <<0>> \o ptx.inputs[i].sequence])

\* a re-serialization that writes the outputs in the opposite order
signed_outputs_reversed(ptx) ==
    Flatten([i \in 1..Len(ptx.outputs) |->
               ptx.outputs[Len(ptx.outputs) + 1 - i].value
                   \o sb_encode_varint(
                          Len(ptx.outputs[Len(ptx.outputs) + 1 - i].script_pubkey))
                   \o ptx.outputs[Len(ptx.outputs) + 1 - i].script_pubkey])

\* lines 324-327
signed_outputs_of(ptx) ==
    Flatten([i \in 1..Len(ptx.outputs) |->
               ptx.outputs[i].value
                   \o sb_encode_varint(Len(ptx.outputs[i].script_pubkey))
                   \o ptx.outputs[i].script_pubkey])

\* lines 330-340
signed_witness(ptx, idx, signature, pubkey) ==
    Flatten([i \in 1..ptx.num_inputs |->
               IF i - 1 = idx
               THEN <<2>> \o sb_encode_varint(Len(signature)) \o signature
                        \o sb_encode_varint(Len(pubkey)) \o pubkey
               ELSE <<0>>])

\* a re-serialization without marker and flag
signed_transaction_unmarked(ptx, idx, signature, pubkey) ==
    ptx.version
        \o sb_encode_varint(ptx.num_inputs) \o signed_inputs(ptx)
        \o sb_encode_varint(ptx.num_outputs) \o signed_outputs_of(ptx)
        \o signed_witness(ptx, idx, signature, pubkey)
        \o ptx.locktime

\* lines 310-345
signed_transaction(ptx, idx, signature, pubkey) ==
    ptx.version \o <<0, 1>>
        \o sb_encode_varint(ptx.num_inputs) \o signed_inputs(ptx)
        \o sb_encode_varint(ptx.num_outputs) \o signed_outputs_of(ptx)
        \o signed_witness(ptx, idx, signature, pubkey)
        \o ptx.locktime

\* ------------------------------------------------------------------------
\* generate-wallet.py: address and WIF encoders
\* (archive/generate-wallet-signet.py holds the same functions)
\* A str is modelled by the sequence of its character codes.
\* ------------------------------------------------------------------------

\* sha256(data), 32 bytes
sha256(data) == << [h |-> "sha256", d |-> data] >>

\* a ^ b of two non-negative integers
RECURSIVE Xor(_, _)
Xor(a, b) ==
    IF a = 0 THEN b
    ELSE IF b = 0 THEN a
    ELSE ((a + b) % 2) + 2 * Xor(a \div 2, b \div 2)

\* line 31
GEN == << 996825010, 642813549, 513874426, 1027748829, 705979059 >>

\* lines 36-37: chk after the rounds 0..n-1 of the inner loop
RECURSIVE polymod_gen(_, _, _)
polymod_gen(chk, b, n) ==
    IF n = 0 THEN chk
    ELSE IF (b \div (2 ^ (n - 1))) % 2 = 1
         THEN Xor(polymod_gen(chk, b, n - 1), GEN[n])
         ELSE polymod_gen(chk, b, n - 1)

\* lines 34-37: one round of the loop over values
polymod_step(chk, v) ==
    polymod_gen(Xor((chk % (2 ^ 25)) * 32, v), chk \div (2 ^ 25), 5)

\* lines 33-37: the loop over values; st holds the position i and chk
RECURSIVE polymod_loop(_, _)
polymod_loop(values, st) ==
    IF st.i > Len(values) THEN st.chk
    ELSE polymod_loop(values, [i   |-> st.i + 1,
                               chk |-> polymod_step(st.chk, values[st.i])])

bech32_polymod(values) == polymod_loop(values, [i |-> 1, chk |-> 1])

bech32_hrp_expand(hrp) ==
    [i \in 1..Len(hrp) |-> hrp[i] \div 32] \o <<0>>
        \o [i \in 1..Len(hrp) |-> hrp[i] % 32]

\* line 46: the six 5-bit groups of polymod
checksum_groups(polymod) ==
    [i \in 1..6 |-> (polymod \div (2 ^ (5 * (6 - i)))) % 32]

bech32_create_checksum(hrp, data) ==
    checksum_groups(Xor(bech32_polymod(bech32_hrp_expand(hrp) \o data
                                          \o <<0, 0, 0, 0, 0, 0>>), 1))

\* "qpzry9x8gf2tvdw0s3jn54khce6mua7l"
BECH32_CHARSET ==
    <<
       113, 112, 122, 114, 121, 57, 120, 56, 103, 102, 50, 116, 118, 100, 119, 48,
       115, 51, 106, 110, 53, 52, 107, 104, 99, 101, 54, 109, 117, 97, 55, 108 >>

\* line 53: hrp + '1' + the characters of combined
bech32_string(hrp, combined) ==
    hrp \o <<49>> \o [i \in 1..Len(combined) |-> BECH32_CHARSET[combined[i] + 1]]

bech32_encode(hrp, data) ==
    bech32_string(hrp, data \o bech32_create_checksum(hrp, data))

\* lines 64-66: the while loop of convertbits; st holds acc, bits and ret,
\* and the position i in data
RECURSIVE convert_emit(_, _)
convert_emit(st, tobits) ==
    IF st.bits >= tobits
    THEN convert_emit([i    |-> st.i,
                       acc  |-> st.acc,
                       bits |-> st.bits - tobits,
                       ret  |-> Append(st.ret, (st.acc \div (2 ^ (st.bits - tobits)))
                                                  % (2 ^ tobits))],
                      tobits)
    ELSE [i |-> st.i, acc |-> st.acc % (2 ^ st.bits), bits |-> st.bits,
          ret |-> st.ret]

\* lines 61-66: the loop over data.  acc is kept modulo 2^bits between two
\* values: the script never masks acc, and what it reads later,
\* (acc >> bits) & maxv, lies below the bits dropped here for values below
\* 2^frombits, for which | adds.
RECURSIVE convert_loop(_, _, _, _)
convert_loop(data, st, frombits, tobits) ==
    IF st.i > Len(data) THEN st
    ELSE convert_loop(data,
                      convert_emit([i    |-> st.i + 1,
                                    acc  |-> st.acc * (2 ^ frombits) + data[st.i],
                                    bits |-> st.bits + frombits,
                                    ret  |-> st.ret],
                                   tobits),
                      frombits, tobits)

\* a padding that leaves the last bits at the low end of the group
convert_pad_unshifted(st, tobits, pad) ==
    IF pad /\ st.bits # 0
    THEN Append(st.ret, st.acc % (2 ^ tobits))
    ELSE st.ret

\* lines 67-70
convert_pad(st, tobits, pad) ==
    IF pad /\ st.bits # 0
    THEN Append(st.ret, (st.acc * (2 ^ (tobits - st.bits))) % (2 ^ tobits))
    ELSE st.ret

convertbits(data, frombits, tobits, pad) ==
    convert_pad(convert_loop(data, [i |-> 1, acc |-> 0, bits |-> 0, ret |-> <<>>],
                             frombits, tobits),
                tobits, pad)

\* divmod(int.from_bytes(data, 'big'), m) by long division; st holds the
\* position i, the remainder so far and the bytes of the quotient
RECURSIVE divmod_bytes(_, _, _)
divmod_bytes(data, m, st) ==
    IF st.i > Len(data) THEN st
    ELSE divmod_bytes(data, m,
                      [i    |-> st.i + 1,
                       rem  |-> (st.rem * 256 + data[st.i]) % m,
                       quot |-> Append(st.quot, (st.rem * 256 + data[st.i]) \div m)])

divmod_of(data, m) == divmod_bytes(data, m, [i |-> 1, rem |-> 0, quot |-> <<>>])

\* int.from_bytes(data, 'big') % m
bytes_mod(data, m) == divmod_of(data, m).rem

\* privkey_to_pubkey of generate-wallet.py, lines 72-92: with the module
\* fastecdsa the compressed point, without it 02 and a digest of the key
wallet_privkey_to_pubkey(privkey_bytes, fastecdsa) ==
    IF fastecdsa
    THEN Raw(privkey_to_pubkey(bytes_mod(privkey_bytes, curve_n)))
    ELSE ChunkCat(Raw(<<2>>), sha256(Raw(privkey_bytes)))

\* lines 102-110 of generate_testnet4_address, for the digest pubkey_hash
testnet4_address_of(pubkey_hash) ==
    bech32_encode(<<116, 98>>, <<0>> \o convertbits(pubkey_hash, 8, 5, TRUE))

\* "123456789ABCDEFGHJKLMNPQRSTUVWXYZabcdefghijkmnopqrstuvwxyz"
ALPHABET ==
    <<
       49, 50, 51, 52, 53, 54, 55, 56, 57, 65, 66, 67, 68, 69, 70, 71,
       72, 74, 75, 76, 77, 78, 80, 81, 82, 83, 84, 85, 86, 87, 88, 89,
       90, 97, 98, 99, 100, 101, 102, 103, 104, 105, 106, 107, 109, 110, 111, 112,
       113, 114, 115, 116, 117, 118, 119, 120, 121, 122 >>

all_zero(data) == \A i \in 1..Len(data) : data[i] = 0

\* lines 145-146: one round of the while loop, for dm = divmod(num, 58)
base58_round(st, dm) ==
    [num |-> dm.quot, result |-> <<ALPHABET[dm.rem + 1]>> \o st.result]

\* lines 143-146: the while loop of base58_encode; st holds the bytes of
\* num and result
RECURSIVE base58_digits(_)
base58_digits(st) ==
    IF all_zero(st.num) THEN st.result
    ELSE base58_digits(base58_round(st, divmod_of(st.num, 58)))

\* the length of the run of v at the head of q
RECURSIVE leading_count(_, _)
leading_count(q, v) ==
    IF q # <<>> /\ q[1] = v THEN 1 + leading_count(Tail(q), v) ELSE 0

\* lines 127-148; '1' is the character 49
base58_encode(data) ==
    [i \in 1..leading_count(data, 0) |-> 49] \o base58_digits([num |-> data, result |-> <<>>])

\* lines 113-125, for the first four bytes checksum of the double digest
generate_wif(privkey_bytes, testnet, checksum) ==
    base58_encode((IF testnet THEN <<239>> ELSE <<128>>) \o privkey_bytes \o <<1>>
                     \o checksum)

\* ------------------------------------------------------------------------
\* sign-and-broadcast.py: wif_to_privkey, lines 47-72
\* ------------------------------------------------------------------------

\* ALPHABET.index(char), from 0; 58 stands for its ValueError
alphabet_index(char) ==
    IF \E i \in 1..58 : ALPHABET[i] = char
    THEN (CHOOSE i \in 1..58 : ALPHABET[i] = char) - 1
    ELSE 58

\* num * 58 + carry on the big-endian bytes of num, from the last byte up;
\* st holds the position i, the carry and the bytes written
RECURSIVE mul58_add(_, _)
mul58_add(data, st) ==
    IF st.i = 0 THEN st
    ELSE mul58_add(data,
                   [i     |-> st.i - 1,
                    carry |-> (data[st.i] * 58 + st.carry) \div 256,
                    bytes |-> <<(data[st.i] * 58 + st.carry) % 256>> \o st.bytes])

\* line 54 for one character; a character outside the alphabet is a
\* ValueError, a num of more than 38 bytes the OverflowError of line 58
base58_char(st, index, product) ==
    IF index = 58 \/ product.carry # 0
    THEN [i |-> st.i + 1, ok |-> FALSE, num |-> st.num]
    ELSE [i |-> st.i + 1, ok |-> TRUE, num |-> product.bytes]

\* lines 52-58: num as num.to_bytes(38, 'big'); st holds the position i in
\* wif and the bytes of num
RECURSIVE base58_number(_, _)
base58_number(wif, st) ==
    IF st.i > Len(wif) \/ ~st.ok THEN st
    ELSE base58_number(wif,
                       base58_char(st, alphabet_index(wif[st.i]),
                                   mul58_add(st.num,
                                             [i     |-> Len(st.num),
                                              carry |-> alphabet_index(wif[st.i]) % 58,
                                              bytes |-> <<>>])))

base58_decode(wif) ==
    base58_number(wif, [i |-> 1, ok |-> TRUE, num |-> [j \in 1..38 |-> 0]])

\* q.lstrip(v)
RECURSIVE lstrip(_, _)
lstrip(q, v) == IF q # <<>> /\ q[1] = v THEN lstrip(Tail(q), v) ELSE q

\* lines 60-61: all_bytes
wif_all_bytes(wif) ==
    [i \in 1..leading_count(wif, 49) |-> 0]
        \o lstrip(base58_decode(wif).num, 0)

\* a decoder that takes the key from the first byte of the payload on
wif_payload_key_shifted(all_bytes, hashed, digest4) ==
    IF Slice(all_bytes, Len(all_bytes) - 4, Len(all_bytes)) # digest4
          \/ Slice(all_bytes, 0, Len(all_bytes) - 4) # hashed
    THEN [ok |-> FALSE, kind |-> "ValueError", privkey |-> <<>>]
    ELSE [ok |-> TRUE, kind |-> "", privkey |-> Slice(all_bytes, 0, 32)]

\* lines 63-72 for the decoded bytes; digest4 is double_sha256(payload)[:4]
\* when payload is the string hashed, and differs from the checksum for any
\* other payload
wif_payload_key(all_bytes, hashed, digest4) ==
    IF Slice(all_bytes, Len(all_bytes) - 4, Len(all_bytes)) # digest4
          \/ Slice(all_bytes, 0, Len(all_bytes) - 4) # hashed
    THEN [ok |-> FALSE, kind |-> "ValueError", privkey |-> <<>>]
    ELSE [ok |-> TRUE, kind |-> "", privkey |-> Slice(all_bytes, 1, 33)]

wif_to_privkey(wif, hashed, digest4) ==
    IF ~base58_decode(wif).ok
    THEN [ok |-> FALSE, kind |-> "ValueError", privkey |-> <<>>]
    ELSE wif_payload_key(wif_all_bytes(wif), hashed, digest4)

\* ------------------------------------------------------------------------
\* State
\* ------------------------------------------------------------------------

VARIABLES
    pc,                \* position of the running script or function
    err,               \* the failure reported: [kind, numbers in its message]
    \* build_reveal_tx.py
    txid, vout, value, \* main: the funding UTXO of the command line
    signed_hex,        \* main: hex returned by sign_funding_input
    signed_outputs,    \* outputs of the transaction the funding signature covers
    funding_witness,   \* main: decoded["vin"][0]["txinwitness"]
    final_hex,         \* main: final_tx.hex()
    printed_final,     \* hex printed under "Final reveal transaction:"
    saved_hex,         \* content of /tmp/reveal_tx_final.hex
    returned_hex,      \* value returned by build_transaction
    \* sign-and-broadcast.py
    tx_hex, input_index, prev_txid, prev_vout, prev_value,
    privkey_int,       \* int.from_bytes(privkey, 'big')
    sighash_flag,      \* the flag the caller needs; the function takes none
    parsed,            \* version, inputs, outputs, outputs_raw, locktime
    preimage,          \* BIP143 preimage, as chunks
    sighash,           \* double_sha256(preimage)
    z, k_bytes, k, r, s,  \* signing scalars; k_bytes as an integer
    signed_tx,         \* the returned transaction
    broadcast,         \* main: the transactions posted by broadcast_tx
    \* generate-wallet.py
    wallet_key,        \* main: privkey, 32 bytes
    fastecdsa,         \* whether the module fastecdsa can be imported
    testnet,           \* the flag of generate_wif
    wallet_pubkey,     \* main: pubkey, as chunks
    wallet_address,    \* main: address
    wif_checksum,      \* generate_wif: checksum
    wallet_wif,        \* main: wif
    wallet_file,       \* content of wallet.json
    loaded_key,        \* sign-and-broadcast.py: wif_to_privkey of the file's WIF
    \* calls of the codec functions
    codec_bytes, codec_hrp, codec_witver,  \* arguments
    codec_groups,      \* convertbits(codec_bytes, 8, 5)
    codec_back,        \* convertbits(codec_groups, 5, 8)
    codec_address,     \* bech32_encode(codec_hrp, [codec_witver] + codec_groups)
    codec_base58,      \* base58_encode(codec_bytes)
    codec_decoded,     \* all_bytes of wif_to_privkey for codec_base58
    \* two runs of build_reveal_tx.py at once
    builds,            \* per run: its position and the variables of main
    tmp_file,          \* content of /tmp/reveal_tx_final.hex
    \* the broadcasts of sign-and-broadcast.py and prove-mint-zkusd.py
    reveal_tx,         \* sign-and-broadcast.py main: txs[1]['bitcoin']
    result,            \* sign-and-broadcast.py main: text of the last response
    answer,            \* prove-mint-zkusd.py main: the reply to the prompt
    posts              \* prove-mint-zkusd.py main: requests posted, with status

revVars == << txid, vout, value, signed_hex, signed_outputs, funding_witness,
              final_hex, printed_final, saved_hex, returned_hex >>

signVars == << tx_hex, input_index, prev_txid, prev_vout, prev_value,
               privkey_int, sighash_flag, parsed, preimage, sighash, z,
               k_bytes, k, r, s, signed_tx, broadcast >>

walletVars == << wallet_key, fastecdsa, testnet, wallet_pubkey, wallet_address,
                 wif_checksum, wallet_wif, wallet_file, loaded_key >>

codecVars == << codec_bytes, codec_hrp, codec_witver, codec_groups,
                codec_back, codec_address, codec_base58, codec_decoded >>

pairVars == << builds, tmp_file >>

castVars == << reveal_tx, result, answer, posts >>

vars == << pc, err, revVars, signVars, walletVars, codecVars, pairVars, castVars >>

NoErr == [kind |-> "", numbers |-> <<>>]

WalletIdle ==
    /\ wallet_key = <<>> /\ fastecdsa = TRUE /\ testnet = TRUE
    /\ wallet_pubkey = <<>> /\ wallet_address = <<>> /\ wif_checksum = <<>>
    /\ wallet_wif = <<>> /\ wallet_file = <<>> /\ loaded_key = <<>>

PairIdle == builds = <<>> /\ tmp_file = <<>>

CastIdle == reveal_tx = <<>> /\ result = <<>> /\ answer = <<>> /\ posts = <<>>

CodecIdle ==
    /\ codec_bytes = <<>> /\ codec_hrp = <<>> /\ codec_witver = 0
    /\ codec_groups = <<>> /\ codec_back = <<>> /\ codec_address = <<>>
    /\ codec_base58 = <<>> /\ codec_decoded = <<>>

\* ------------------------------------------------------------------------
\* build_reveal_tx.py: main and build_transaction as steps
\* ------------------------------------------------------------------------

\* a main without the check of lines 209-213
MainCheckFundsUnchecked ==
    /\ pc = "start"
    /\ pc' = "signing"
    /\ UNCHANGED << walletVars, codecVars, pairVars, castVars, err, revVars, signVars >>

\* main, lines 209-213
MainCheckFunds ==
    /\ pc = "start"
    /\ IF value + COMMIT_VALUE < TOTAL_OUTPUTS
       THEN /\ err' = [kind |-> "InsufficientFunds",
                       numbers |-> <<TOTAL_OUTPUTS - COMMIT_VALUE>>]
            /\ pc' = "exit_funds"
       ELSE /\ err' = err
            /\ pc' = "signing"
    /\ UNCHANGED << walletVars, codecVars, pairVars, castVars, revVars, signVars >>

\* main, lines 215-217 with sign_funding_input: bitcoin-cli signs
MainSign ==
    /\ pc = "signing"
    /\ \E w \in FundingWitnessChoices :
         /\ signed_hex' = sign_funding_input(txid, vout, w)
         /\ signed_outputs' = cli_unsigned_tx(txid, vout).outputs
    /\ pc' = "signed"
    /\ UNCHANGED << walletVars, codecVars, pairVars, castVars, err, txid, vout, value, funding_witness, final_hex,
                    printed_final, saved_hex, returned_hex, signVars >>

\* main, lines 217-221: the tool's answer holds no "hex"
MainSignFailed ==
    /\ pc = "signing"
    /\ err' = [kind |-> "SignFailed", numbers |-> <<>>]
    /\ pc' = "exit_sign"
    /\ UNCHANGED << walletVars, codecVars, pairVars, castVars, revVars, signVars >>

\* main, lines 231-245: decoderawtransaction of the signed hex
MainDecode ==
    /\ pc = "signed"
    /\ funding_witness' = DecodeTx(signed_hex).witness[1]
    /\ pc' = "decoded"
    /\ UNCHANGED << walletVars, codecVars, pairVars, castVars, err, txid, vout, value, signed_hex, signed_outputs,
                    final_hex, printed_final, saved_hex, returned_hex, signVars >>

\* main, lines 250-306: the final transaction is assembled and printed
MainBuildFinal ==
    /\ pc = "decoded"
    /\ final_hex' = main_final_tx(signed_hex, txid, vout, funding_witness)
    /\ printed_final' = final_hex'
    /\ pc' = "verify"
    /\ UNCHANGED << walletVars, codecVars, pairVars, castVars, err, txid, vout, value, signed_hex, signed_outputs,
                    funding_witness, saved_hex, returned_hex, signVars >>

\* main, lines 308-329: decoderawtransaction of the final hex
MainVerify ==
    /\ pc = "verify"
    /\ IF DecodeTx(final_hex).ok
       THEN /\ saved_hex' = final_hex
            /\ err' = err
            /\ pc' = "done"
       ELSE /\ saved_hex' = saved_hex
            /\ err' = [kind |-> "VerifyFailed", numbers |-> <<>>]
            /\ pc' = "verify_failed"
    /\ UNCHANGED << walletVars, codecVars, pairVars, castVars, txid, vout, value, signed_hex, signed_outputs,
                    funding_witness, final_hex, printed_final, returned_hex,
                    signVars >>

\* a call of build_transaction with the funding UTXO and a serialized stack
BuildTransaction ==
    /\ pc = "start"
    /\ \E w \in FundingWitnessChoices :
         LET res == build_transaction(txid, vout, value, EncodeStack(w)) IN
         /\ err' = res.err
         /\ returned_hex' = res.hex
         /\ pc' = IF res.raised THEN "bt_raised" ELSE "bt_returned"
    /\ UNCHANGED << walletVars, codecVars, pairVars, castVars, txid, vout, value, signed_hex, signed_outputs,
                    funding_witness, final_hex, printed_final, saved_hex, signVars >>

SignIdle ==
    /\ tx_hex = <<>> /\ input_index = 0 /\ prev_txid = <<>> /\ prev_vout = 0
    /\ prev_value = 0 /\ privkey_int = 0 /\ sighash_flag = 1
    /\ parsed = <<>> /\ preimage = <<>> /\ sighash = <<>>
    /\ z = 0 /\ k_bytes = 0 /\ k = 0 /\ r = 0 /\ s = 0 /\ signed_tx = <<>>
    /\ broadcast = <<>>

InitReveal ==
    /\ pc = "start"
    /\ err = NoErr
    /\ txid \in FundingTxids
    /\ vout \in 0..MaxVout
    /\ value \in FundingValues
    /\ signed_hex = <<>> /\ signed_outputs = <<>> /\ funding_witness = <<>>
    /\ final_hex = <<>> /\ printed_final = <<>> /\ saved_hex = <<>>
    /\ returned_hex = <<>>
    /\ SignIdle
    /\ WalletIdle
    /\ CodecIdle
    /\ PairIdle
    /\ CastIdle

NextReveal ==
    \/ MainCheckFunds
    \/ MainSign
    \/ MainSignFailed
    \/ MainDecode
    \/ MainBuildFinal
    \/ MainVerify
    \/ BuildTransaction

SpecReveal == InitReveal /\ [][NextReveal]_vars

\* ------------------------------------------------------------------------
\* sign-and-broadcast.py: sign_segwit_input and main as steps
\* ------------------------------------------------------------------------

MaxInputs == 2
MaxOutputs == 2
MaxKey == 7
MaxDigest == 7

\* the transactions handed to sign_segwit_input
SampleInput(i) ==
    [txid       |-> TxidOf(i),
     vout       |-> i - 1,
     script_sig |-> IF i = 2 THEN <<81>> ELSE <<>>,
     sequence   |-> IF i = 1 THEN <<253, 255, 255, 255>> ELSE SEQUENCE_FINAL]

SampleOutput(j) ==
    [value         |-> to_bytes_le(1000 * j, 8),
     script_pubkey |-> IF j = 1 THEN <<0, 20>> \o WALLET_SCRIPTHASH
                       ELSE <<106, j>>]

\* with a witness section, the last input carries a stack already
SampleTx(a, b, section) ==
    [version  |-> to_bytes_le(2, 4),
     inputs   |-> [i \in 1..a |-> SampleInput(i)],
     outputs  |-> [j \in 1..b |-> SampleOutput(j)],
     witness  |-> [i \in 1..a |->
                     IF section /\ i = a THEN <<SigA, WALLET_PUBKEY>> ELSE <<>>],
     locktime |-> to_bytes_le(7, 4)]

SampleHexes ==
    { EncodeTx(SampleTx(a, b, section), section) :
        a \in 1..MaxInputs, b \in 1..MaxOutputs, section \in BOOLEAN }

\* a transaction cut short after the version, after its inputs, and
\* within a three-byte count of its outputs
TruncatedHexes ==
    { Slice(EncodeTx(SampleTx(1, 1, FALSE), FALSE), 0, n) : n \in {4, 46} }
        \cup { Slice(EncodeTx(SampleTx(1, 1, FALSE), FALSE), 0, 46) \o <<253>> }

SignRaise(kind) ==
    /\ err' = [kind |-> kind, numbers |-> <<>>]
    /\ pc' = "s_raised"

\* lines 115-192: the key, then the parse of the transaction
SignParse ==
    /\ pc = "s_start"
    /\ IF privkey_to_pubkey(privkey_int) = <<>>
       THEN SignRaise("InvalidKey") /\ parsed' = parsed
       ELSE IF ~parse_tx(tx_hex).ok
       THEN SignRaise("IndexError") /\ parsed' = parsed
       ELSE /\ parsed' = parse_tx(tx_hex)
            /\ err' = err
            /\ pc' = "s_parsed"
    /\ UNCHANGED << walletVars, codecVars, pairVars, castVars, revVars, tx_hex, input_index, prev_txid, prev_vout,
                    prev_value, privkey_int, sighash_flag, preimage, sighash, z,
                    k_bytes, k, r, s, signed_tx, broadcast >>

\* lines 194-239: the preimage and its double SHA-256 as the integer z
SignSighash ==
    /\ pc = "s_parsed"
    /\ IF input_index >= Len(parsed.inputs)
       THEN /\ SignRaise("IndexError")
            /\ preimage' = preimage /\ sighash' = sighash /\ z' = z
       ELSE /\ preimage' = bip143_preimage(parsed, input_index, prev_txid,
                                           prev_vout, prev_value,
                                           privkey_to_pubkey(privkey_int))
            /\ sighash' = double_sha256(preimage')
            /\ z' \in 0..MaxDigest
            /\ err' = err
            /\ pc' = "s_sighash"
    /\ UNCHANGED << walletVars, codecVars, pairVars, castVars, revVars, tx_hex, input_index, prev_txid, prev_vout,
                    prev_value, privkey_int, sighash_flag, parsed, k_bytes,
                    k, r, s, signed_tx, broadcast >>

\* lines 251-256: the HMAC digest k_bytes and the nonce taken from it
SignNonce ==
    /\ pc = "s_sighash"
    /\ k_bytes' \in 0..MaxDigest
    /\ k' = nonce_of(k_bytes')
    /\ pc' = "s_nonce"
    /\ UNCHANGED << walletVars, codecVars, pairVars, castVars, err, revVars, tx_hex, input_index, prev_txid, prev_vout,
                    prev_value, privkey_int, sighash_flag, parsed, preimage, sighash, z,
                    r, s, signed_tx, broadcast >>

\* lines 286-297: R = k*G, r, s and the low-S rule; R[0] of None is a TypeError
SignScalars ==
    /\ pc = "s_nonce"
    /\ IF scalar_mult(k, G, curve_p) = None
       THEN SignRaise("TypeError") /\ r' = r /\ s' = s
       ELSE /\ r' = r_of(k)
            /\ s' = low_s(s_raw(z, k, r_of(k), privkey_int))
            /\ err' = err
            /\ pc' = "s_scalars"
    /\ UNCHANGED << walletVars, codecVars, pairVars, castVars, revVars, tx_hex, input_index, prev_txid, prev_vout,
                    prev_value, privkey_int, sighash_flag, parsed, preimage, sighash, z,
                    k_bytes, k, signed_tx, broadcast >>

\* lines 299-345: DER encoding, witness and the signed transaction;
\* der_encode_int(0) reads x_bytes[0] of an empty string
SignSerialize ==
    /\ pc = "s_scalars"
    /\ IF r = 0 \/ s = 0
       THEN SignRaise("IndexError") /\ signed_tx' = signed_tx
       ELSE /\ signed_tx' = signed_transaction(parsed, input_index,
                                               der_signature(r, s),
                                               privkey_to_pubkey(privkey_int))
            /\ err' = err
            /\ pc' = "s_returned"
    /\ UNCHANGED << walletVars, codecVars, pairVars, castVars, revVars, tx_hex, input_index, prev_txid, prev_vout,
                    prev_value, privkey_int, sighash_flag, parsed, preimage, sighash, z,
                    k_bytes, k, r, s, broadcast >>

\* main, lines 411-413: the exception is printed and main returns
MainSignError ==
    /\ pc = "s_raised"
    /\ input_index = 0
    /\ pc' = "m_returned"
    /\ UNCHANGED << walletVars, codecVars, pairVars, castVars, err, revVars, signVars >>

\* the answers of the broadcast service: response.status_code and
\* response.text. A txid has 64 characters; the text of a refusal has any
\* length.
Accepted == [status |-> 200, text |-> [i \in 1..64 |-> IF i % 2 = 0 THEN 97 ELSE 49]]

Refused == [status |-> 400, text |-> [i \in 1..28 |-> 101]]

RefusedLong == [status |-> 400, text |-> [i \in 1..64 |-> 120]]

\* requests.post raised: there is no response
NoResponse == [status |-> 0, text |-> <<>>]

Responses == { Accepted, Refused, RefusedLong }

\* the reveal transaction of the prover, txs[1]['bitcoin'] (line 384)
RevealHex == EncodeTx(SampleTx(1, 2, TRUE), TRUE)

\* broadcast_tx, lines 347-351, as main calls it for the transaction data:
\* the post is recorded, result holds response.text; an exception of
\* requests.post is caught nowhere and ends main
broadcast_tx(name, data, resp, after) ==
    /\ broadcast' = Append(broadcast, [name |-> name, tx |-> data, reply |-> resp])
    /\ result' = resp.text
    /\ pc' = IF resp = NoResponse THEN "m_crashed" ELSE after

\* a main that sends the reveal transaction whatever the commit's result
MainBroadcastRevealUnchecked ==
    /\ pc = "m_commit_sent"
    /\ \E resp \in Responses \cup {NoResponse} :
         broadcast_tx("reveal", reveal_tx, resp, "m_done")
    /\ UNCHANGED << walletVars, codecVars, pairVars, err, revVars, tx_hex,
                    input_index, prev_txid, prev_vout, prev_value, privkey_int,
                    sighash_flag, parsed, preimage, sighash, z, k_bytes, k, r,
                    s, signed_tx, reveal_tx, answer, posts >>

\* main, lines 415-418: the signed commit transaction is broadcast
MainBroadcastCommit ==
    /\ pc = "s_returned"
    /\ input_index = 0
    /\ \E resp \in Responses \cup {NoResponse} :
         broadcast_tx("commit", signed_tx, resp, "m_commit_sent")
    /\ UNCHANGED << walletVars, codecVars, pairVars, err, revVars, tx_hex,
                    input_index, prev_txid, prev_vout, prev_value, privkey_int,
                    sighash_flag, parsed, preimage, sighash, z, k_bytes, k, r,
                    s, signed_tx, reveal_tx, answer, posts >>

\* main, lines 420-428: after a result of 64 characters the reveal
\* transaction is broadcast as the prover gave it
MainBroadcastReveal ==
    /\ pc = "m_commit_sent"
    /\ Len(result) = 64
    /\ \E resp \in Responses \cup {NoResponse} :
         broadcast_tx("reveal", reveal_tx, resp, "m_done")
    /\ UNCHANGED << walletVars, codecVars, pairVars, err, revVars, tx_hex,
                    input_index, prev_txid, prev_vout, prev_value, privkey_int,
                    sighash_flag, parsed, preimage, sighash, z, k_bytes, k, r,
                    s, signed_tx, reveal_tx, answer, posts >>

\* main, line 420: any other result ends main
MainCommitRefused ==
    /\ pc = "m_commit_sent"
    /\ Len(result) # 64
    /\ pc' = "m_done"
    /\ UNCHANGED << walletVars, codecVars, pairVars, castVars, err, revVars,
                    signVars >>

RevealIdle ==
    /\ txid = <<>> /\ vout = 0 /\ value = 0
    /\ signed_hex = <<>> /\ signed_outputs = <<>> /\ funding_witness = <<>>
    /\ final_hex = <<>> /\ printed_final = <<>> /\ saved_hex = <<>>
    /\ returned_hex = <<>>

\* the outpoint the caller names: that of the input, or main's defaults
\* (lines 392-393) when the wallet file holds no utxo
PrevChoices(data, idx) ==
    { << <<>>, 1 >> } \cup
    (IF parse_tx(data).ok /\ idx < Len(parse_tx(data).inputs)
     THEN { << parse_tx(data).inputs[idx + 1].txid,
               parse_tx(data).inputs[idx + 1].vout >> }
     ELSE {})

InitSign ==
    /\ pc = "s_start"
    /\ err = NoErr
    /\ RevealIdle
    /\ WalletIdle
    /\ CodecIdle
    /\ PairIdle
    /\ reveal_tx = RevealHex /\ result = <<>> /\ answer = <<>> /\ posts = <<>>
    /\ \/ /\ tx_hex \in SampleHexes \cup TruncatedHexes
          /\ input_index \in 0..MaxInputs
          /\ privkey_int = 3
       \/ /\ tx_hex = EncodeTx(SampleTx(1, 1, FALSE), FALSE)
          /\ input_index = 0
          /\ privkey_int \in 0..MaxKey
    /\ \E o \in PrevChoices(tx_hex, input_index) :
         /\ prev_txid = o[1]
         /\ prev_vout = o[2]
    /\ prev_value = 150793
    /\ sighash_flag \in {1, 129}
    /\ parsed = <<>> /\ preimage = <<>> /\ sighash = <<>>
    /\ z = 0 /\ k_bytes = 0 /\ k = 0 /\ r = 0 /\ s = 0 /\ signed_tx = <<>>
    /\ broadcast = <<>>

NextSign ==
    \/ SignParse
    \/ SignSighash
    \/ SignNonce
    \/ SignScalars
    \/ SignSerialize
    \/ MainSignError
    \/ MainBroadcastCommit
    \/ MainBroadcastReveal
    \/ MainCommitRefused

SpecSign == InitSign /\ [][NextSign]_vars

\* ------------------------------------------------------------------------
\* generate-wallet.py: main as steps, and the key read back by
\* sign-and-broadcast.py
\* ------------------------------------------------------------------------

\* generate_seed returns any 32 bytes: the scalars around the group order,
\* and keys with zero bytes in front and with every bit set
WalletKeys ==
    { to_bytes_be(d, 32) : d \in 0..(MaxKey + 1) }
        \cup { [i \in 1..32 |-> (7 * i) % 256],
               <<0, 0>> \o [i \in 1..30 |-> 200 + i],
               [i \in 1..32 |-> 255] }

\* values of hash160(pubkey)
Hash160Choices ==
    { Slice(WALLET_SCRIPTHASH, 2, 22), [i \in 1..20 |-> 0], [i \in 1..20 |-> 255] }

\* values of sha256(sha256(extended))[:4]
Digest4Choices == { <<0, 0, 0, 0>>, <<10, 20, 30, 40>>, <<255, 255, 255, 255>> }

\* main, line 160: generate_testnet4_address
WalletAddress ==
    /\ pc = "w_start"
    /\ IF wallet_privkey_to_pubkey(wallet_key, fastecdsa) = <<>>
       THEN /\ err' = [kind |-> "InvalidKey", numbers |-> <<>>]
            /\ pc' = "w_raised"
            /\ UNCHANGED << wallet_pubkey, wallet_address >>
       ELSE /\ wallet_pubkey' = wallet_privkey_to_pubkey(wallet_key, fastecdsa)
            /\ \E pubkey_hash \in Hash160Choices :
                 wallet_address' = testnet4_address_of(pubkey_hash)
            /\ err' = err
            /\ pc' = "w_address"
    /\ UNCHANGED << revVars, signVars, codecVars, pairVars, castVars, wallet_key, fastecdsa, testnet,
                    wif_checksum, wallet_wif, wallet_file, loaded_key >>

\* main, line 161: generate_wif
WalletWif ==
    /\ pc = "w_address"
    /\ wif_checksum' \in Digest4Choices
    /\ wallet_wif' = generate_wif(wallet_key, testnet, wif_checksum')
    /\ pc' = "w_wif"
    /\ UNCHANGED << err, revVars, signVars, codecVars, pairVars, castVars, wallet_key, fastecdsa,
                    testnet, wallet_pubkey, wallet_address, wallet_file, loaded_key >>

\* main, lines 163-194: the wallet is printed and written to wallet.json
WalletSave ==
    /\ pc = "w_wif"
    /\ wallet_file' = [address         |-> wallet_address,
                       public_key      |-> wallet_pubkey,
                       private_key_wif |-> wallet_wif,
                       private_key_hex |-> wallet_key]
    /\ pc' = "w_saved"
    /\ UNCHANGED << err, revVars, signVars, codecVars, pairVars, castVars, wallet_key, fastecdsa,
                    testnet, wallet_pubkey, wallet_address, wif_checksum,
                    wallet_wif, loaded_key >>

\* sign-and-broadcast.py, lines 364 and 116: the WIF of the file is decoded
WalletLoadKey ==
    /\ pc = "w_saved"
    /\ loaded_key' = wif_to_privkey(wallet_file.private_key_wif,
                                    (IF testnet THEN <<239>> ELSE <<128>>)
                                        \o wallet_key \o <<1>>,
                                    wif_checksum)
    /\ pc' = "w_loaded"
    /\ UNCHANGED << err, revVars, signVars, codecVars, pairVars, castVars, wallet_key, fastecdsa,
                    testnet, wallet_pubkey, wallet_address, wif_checksum,
                    wallet_wif, wallet_file >>

InitWallet ==
    /\ pc = "w_start"
    /\ err = NoErr
    /\ RevealIdle
    /\ SignIdle
    /\ CodecIdle
    /\ PairIdle
    /\ CastIdle
    /\ wallet_key \in WalletKeys
    /\ fastecdsa \in BOOLEAN
    /\ testnet \in BOOLEAN
    /\ wallet_pubkey = <<>> /\ wallet_address = <<>> /\ wif_checksum = <<>>
    /\ wallet_wif = <<>> /\ wallet_file = <<>> /\ loaded_key = <<>>

NextWallet ==
    \/ WalletAddress
    \/ WalletWif
    \/ WalletSave
    \/ WalletLoadKey

SpecWallet == InitWallet /\ [][NextWallet]_vars

\* ------------------------------------------------------------------------
\* generate-wallet.py: calls of convertbits and bech32_encode
\* ------------------------------------------------------------------------

MaxLen == 5
MaxWitver == 1

CodecByteValues == { 0, 129, 255 }

\* the byte strings of length n over CodecByteValues
RECURSIVE StringsOf(_)
StringsOf(n) ==
    IF n = 0 THEN { <<>> }
    ELSE { <<b>> \o t : b \in CodecByteValues, t \in StringsOf(n - 1) }

CodecStrings == UNION { StringsOf(n) : n \in 0..MaxLen }

\* "tb" and "bc"
CodecHrps == { <<116, 98>>, <<98, 99>> }

\* convertbits(data, 8, 5) and back
CodecConvert ==
    /\ pc = "c_start"
    /\ codec_groups' = convertbits(codec_bytes, 8, 5, TRUE)
    /\ codec_back' = convertbits(codec_groups', 5, 8, TRUE)
    /\ pc' = "c_converted"
    /\ UNCHANGED << err, revVars, signVars, walletVars, pairVars, castVars, codec_bytes, codec_hrp,
                    codec_witver, codec_address, codec_base58, codec_decoded >>

\* bech32_encode(hrp, [witver] + groups)
CodecEncode ==
    /\ pc = "c_converted"
    /\ codec_address' = bech32_encode(codec_hrp, <<codec_witver>> \o codec_groups)
    /\ pc' = "c_encoded"
    /\ UNCHANGED << err, revVars, signVars, walletVars, pairVars, castVars, codec_bytes, codec_hrp,
                    codec_witver, codec_groups, codec_back, codec_base58,
                    codec_decoded >>

\* base58_encode(data), and lines 52-61 of wif_to_privkey on its result
CodecBase58 ==
    /\ pc = "c_encoded"
    /\ codec_base58' = base58_encode(codec_bytes)
    /\ codec_decoded' = wif_all_bytes(codec_base58')
    /\ pc' = "c_base58"
    /\ UNCHANGED << err, revVars, signVars, walletVars, pairVars, castVars, codec_bytes, codec_hrp,
                    codec_witver, codec_groups, codec_back, codec_address >>

InitCodec ==
    /\ pc = "c_start"
    /\ err = NoErr
    /\ RevealIdle
    /\ SignIdle
    /\ WalletIdle
    /\ PairIdle
    /\ CastIdle
    /\ codec_bytes \in CodecStrings
    /\ codec_hrp \in CodecHrps
    /\ codec_witver \in 0..MaxWitver
    /\ codec_groups = <<>> /\ codec_back = <<>> /\ codec_address = <<>>
    /\ codec_base58 = <<>> /\ codec_decoded = <<>>

NextCodec ==
    \/ CodecConvert
    \/ CodecEncode
    \/ CodecBase58

SpecCodec == InitCodec /\ [][NextCodec]_vars

\* ------------------------------------------------------------------------
\* build_reveal_tx.py: two runs of the script at once
\* ------------------------------------------------------------------------

Runs == {1, 2}

\* the funding UTXOs of the two command lines
PairTxids == { TxidOf(1), TxidOf(2) }
PairValues == { 0, 500000 }

\* the variables of one run of main
RunStart(t, v, a) ==
    [pc |-> "start", txid |-> t, vout |-> v, value |-> a,
     signed_hex |-> <<>>, funding_witness |-> <<>>, final_hex |-> <<>>,
     returned_hex |-> <<>>]

\* main, lines 209-213
PairCheckFunds(p) ==
    /\ builds[p].pc = "start"
    /\ builds' = [builds EXCEPT ![p].pc =
                     IF builds[p].value + COMMIT_VALUE < TOTAL_OUTPUTS
                     THEN "exit_funds" ELSE "signing"]
    /\ UNCHANGED tmp_file

\* main, lines 215-221 with sign_funding_input
PairSign(p) ==
    /\ builds[p].pc = "signing"
    /\ \E w \in FundingWitnessChoices :
         builds' = [builds EXCEPT
                      ![p].signed_hex =
                          sign_funding_input(builds[p].txid, builds[p].vout, w),
                      ![p].pc = "signed"]
    /\ UNCHANGED tmp_file

\* main, lines 231-245
PairDecode(p) ==
    /\ builds[p].pc = "signed"
    /\ builds' = [builds EXCEPT
                    ![p].funding_witness =
                        DecodeTx(builds[p].signed_hex).witness[1],
                    ![p].pc = "decoded"]
    /\ UNCHANGED tmp_file

\* main, lines 250-306
PairBuildFinal(p) ==
    /\ builds[p].pc = "decoded"
    /\ builds' = [builds EXCEPT
                    ![p].final_hex =
                        main_final_tx(builds[p].signed_hex, builds[p].txid,
                                      builds[p].vout, builds[p].funding_witness),
                    ![p].pc = "verify"]
    /\ UNCHANGED tmp_file

\* main, lines 308-329: the file of lines 321-323 has one fixed name
PairVerify(p) ==
    /\ builds[p].pc = "verify"
    /\ IF DecodeTx(builds[p].final_hex).ok
       THEN /\ tmp_file' = builds[p].final_hex
            /\ builds' = [builds EXCEPT ![p].pc = "done"]
       ELSE /\ tmp_file' = tmp_file
            /\ builds' = [builds EXCEPT ![p].pc = "verify_failed"]

\* a call of build_transaction, lines 68-128
PairBuildTransaction(p) ==
    /\ builds[p].pc = "start"
    /\ \E w \in FundingWitnessChoices :
         LET res == build_transaction(builds[p].txid, builds[p].vout,
                                      builds[p].value, EncodeStack(w)) IN
         builds' = [builds EXCEPT
                      ![p].returned_hex = res.hex,
                      ![p].pc = IF res.raised THEN "bt_raised"
                                ELSE "bt_returned"]
    /\ UNCHANGED tmp_file

\* a run touches nothing of the other scripts
PairFrame ==
    UNCHANGED << pc, err, revVars, signVars, walletVars, codecVars, castVars >>

InitPair ==
    /\ pc = "pair"
    /\ err = NoErr
    /\ builds \in [Runs -> { RunStart(t, v, a) :
                               t \in PairTxids, v \in {MaxVout}, a \in PairValues }]
    /\ tmp_file = <<>>
    /\ RevealIdle
    /\ SignIdle
    /\ WalletIdle
    /\ CodecIdle
    /\ CastIdle

\* the steps of the two runs in any order
NextPair ==
    \/ \E p \in Runs : PairCheckFunds(p) /\ PairFrame
    \/ \E p \in Runs : PairSign(p) /\ PairFrame
    \/ \E p \in Runs : PairDecode(p) /\ PairFrame
    \/ \E p \in Runs : PairBuildFinal(p) /\ PairFrame
    \/ \E p \in Runs : PairVerify(p) /\ PairFrame
    \/ \E p \in Runs : PairBuildTransaction(p) /\ PairFrame

SpecPair == InitPair /\ [][NextPair]_vars

\* ------------------------------------------------------------------------
\* archive/prove-mint-zkusd.py: main from the request to the prover on
\* ------------------------------------------------------------------------

\* str.lower() on character codes
lower(str) ==
    [i \in 1..Len(str) |->
        IF str[i] >= 65 /\ str[i] <= 90 THEN str[i] + 32 ELSE str[i]]

\* replies to "Broadcast transactions? [y/N]: ": y, Y, n, yes and the empty one
Answers == { <<121>>, <<89>>, <<110>>, <<121, 101, 115>>, <<>> }

\* what the request to the prover ends in: two transactions, another
\* status than 200, another format, or an exception
ProverOutcomes == { "two_txs", "bad_status", "bad_format", "exception" }

\* the frame of the steps of this script
MintFrame ==
    UNCHANGED << revVars, signVars, walletVars, codecVars, pairVars, reveal_tx,
                 result >>

\* lines 95-127: the request to the prover; the two transactions are saved
MintProve ==
    /\ pc = "p_start"
    /\ \E outcome \in ProverOutcomes :
         IF outcome = "two_txs"
         THEN pc' = "p_prompt" /\ err' = err
         ELSE /\ pc' = "p_failed"
              /\ err' = [kind |-> outcome, numbers |-> <<>>]
    /\ UNCHANGED << answer, posts >>
    /\ MintFrame

\* lines 129-132: the prompt
MintPrompt ==
    /\ pc = "p_prompt"
    /\ answer' \in Answers
    /\ pc' = IF lower(answer') = <<121>> THEN "p_commit" ELSE "p_done"
    /\ UNCHANGED << err, posts >>
    /\ MintFrame

\* requests.post(BROADCAST_URL, data=tx, timeout=30) of lines 135 and 143:
\* an exception is caught at lines 155-160 and main returns 1
mint_post(name, resp, accepted) ==
    /\ posts' = Append(posts, [name |-> name, reply |-> resp])
    /\ IF resp = NoResponse
       THEN /\ pc' = "p_failed"
            /\ err' = [kind |-> "exception", numbers |-> <<>>]
       ELSE /\ pc' = IF resp.status = 200 THEN accepted ELSE "p_done"
            /\ err' = err

\* lines 133-139 and 150-151: the commit transaction is posted
MintBroadcastCommit ==
    /\ pc = "p_commit"
    /\ \E resp \in Responses \cup {NoResponse} :
         mint_post("commit", resp, "p_spell")
    /\ UNCHANGED answer
    /\ MintFrame

\* lines 141-149: the spell transaction is posted
MintBroadcastSpell ==
    /\ pc = "p_spell"
    /\ \E resp \in Responses \cup {NoResponse} :
         mint_post("spell", resp, "p_done")
    /\ UNCHANGED answer
    /\ MintFrame

InitMint ==
    /\ pc = "p_start"
    /\ err = NoErr
    /\ RevealIdle
    /\ SignIdle
    /\ WalletIdle
    /\ CodecIdle
    /\ PairIdle
    /\ CastIdle

NextMint ==
    \/ MintProve
    \/ MintPrompt
    \/ MintBroadcastCommit
    \/ MintBroadcastSpell

\* the two scripts that broadcast
InitCast == InitSign \/ InitMint

NextCast == NextSign \/ NextMint

SpecCast == InitCast /\ [][NextCast]_vars

\* all programs
Init == InitReveal \/ InitSign \/ InitWallet \/ InitCodec \/ InitMint

Next == NextReveal \/ NextSign \/ NextWallet \/ NextCodec \/ NextMint

Spec == Init /\ [][Next]_vars

\* ------------------------------------------------------------------------
\* Properties
\* ------------------------------------------------------------------------

\* C1: whenever the inputs sum to less than the outputs the build fails with
\* InsufficientFunds, and the failure reports the shortfall
\* sum(outputs) - sum(inputs) exactly.
C1_ShortfallReported ==
    /\ (pc # "start" /\ value + COMMIT_VALUE < TOTAL_OUTPUTS)
           => err.kind = "InsufficientFunds"
    /\ err.kind = "InsufficientFunds"
           => \E i \in 1..Len(err.numbers) :
                 err.numbers[i] = TOTAL_OUTPUTS - (value + COMMIT_VALUE)

\* C2: when a build has ended in failure, no transaction bytes were returned,
\* printed as the final transaction, saved or broadcast.
C2_NoBytesOnFailure ==
    pc \in {"exit_funds", "exit_sign", "verify_failed", "bt_raised",
            "s_raised", "m_returned"}
        => /\ returned_hex = <<>>
           /\ printed_final = <<>>
           /\ saved_hex = <<>>
           /\ signed_tx = <<>>
           /\ broadcast = <<>>

\* sum(inputs) - sum(outputs) of a built transaction
ImpliedFee(t) ==
    value + COMMIT_VALUE
        - SumSeq([i \in 1..Len(t.outputs) |-> from_bytes_le(t.outputs[i].value)])

BuiltShape(t) ==
    /\ t.ok
    /\ Len(t.inputs) = 2
    /\ Len(t.outputs) = 3
    /\ ImpliedFee(t) >= 0
    /\ value = 500000 => ImpliedFee(t) = 944

\* C3: with a funding input of 500000 satoshis signed as P2WPKH the build
\* succeeds; a built transaction has 2 inputs and 3 outputs, its implied fee
\* is never negative, and is 944 satoshis for the funding value 500000.
C3_FundedBuild ==
    /\ value = 500000 => pc \notin {"exit_funds", "bt_raised"}
    /\ (value = 500000 /\ pc = "verify_failed") => Len(funding_witness) # 2
    /\ pc = "done" => BuiltShape(DecodeTx(final_hex))
    /\ pc = "bt_returned" => BuiltShape(DecodeTx(returned_hex))

C3_Witness ==
    /\ pc = "done"
    /\ value = 500000
    /\ Len(funding_witness) = 2
    /\ saved_hex = final_hex

\* positions after the nonce was derived, after the scalars were computed,
\* and after a signature was returned
AfterNonce == {"s_nonce", "s_scalars", "s_returned", "m_commit_sent", "m_done",
               "m_crashed"}

AfterScalars == {"s_scalars", "s_returned", "m_commit_sent", "m_done", "m_crashed"}

Returned == {"s_returned", "m_commit_sent", "m_done", "m_crashed"}

\* C4: no signature is returned in a degenerate case (nonce digest 0 mod n,
\* R the identity, r = 0): the nonce used is the reduced digest itself, never
\* a substitute, and a degenerate attempt ends in SigningDegenerate.
C4_DegenerateFails ==
    /\ pc \in AfterNonce => k = k_bytes % curve_n
    /\ pc \in Returned => (k_bytes % curve_n # 0 /\ r # 0)
    /\ (pc \in {"s_raised", "m_returned"} /\ k # 0 /\ r = 0)
           => err.kind = "SigningDegenerate"

\* the signature element of the witness written for input idx (from 0)
WitnessSignature(data, idx) == DecodeTx(data).witness[idx + 1][1]

\* the integers r and s of a DER signature 30 len 02 len r 02 len s type
DerR(sig) == SumSeq([i \in 1..sig[4] |-> sig[4 + i] * (256 ^ (sig[4] - i))])

DerS(sig) ==
    SumSeq([i \in 1..sig[6 + sig[4]] |->
              sig[6 + sig[4] + i] * (256 ^ (sig[6 + sig[4]] - i))])

\* C5: the s encoded in the witness signature of a signed transaction is at
\* most n \div 2.
C5_LowS ==
    pc \in Returned
        => /\ DecodeTx(signed_tx).ok
           /\ DerS(WitnessSignature(signed_tx, input_index)) = s
           /\ DerS(WitnessSignature(signed_tx, input_index)) <= curve_n \div 2

C5_Witness ==
    /\ pc = "s_returned"
    /\ s_raw(z, k, r, privkey_int) > curve_n \div 2
    /\ s = curve_n - s_raw(z, k, r, privkey_int)

\* the point (z / s) * G + (r / s) * Q of ECDSA verification
VerifyPoint(zz, rr, ss, Q) ==
    point_add(
        scalar_mult((zz * mod_inverse(ss, curve_n).val) % curve_n, G, curve_p),
        scalar_mult((rr * mod_inverse(ss, curve_n).val) % curve_n, Q, curve_p),
        curve_p)

Verifies(zz, rr, ss, Q) ==
    /\ rr \in 1..(curve_n - 1)
    /\ ss \in 1..(curve_n - 1)
    /\ VerifyPoint(zz, rr, ss, Q) # None
    /\ VerifyPoint(zz, rr, ss, Q)[1] % curve_n = rr

\* C6: for a private key d with 1 <= d < n and any sighash z, the (r, s)
\* encoded in the returned signature verifies against the public key d * G.
C6_Verifies ==
    (pc \in Returned /\ privkey_int \in 1..(curve_n - 1))
        => Verifies(z,
                    DerR(WitnessSignature(signed_tx, input_index)),
                    DerS(WitnessSignature(signed_tx, input_index)),
                    scalar_mult(privkey_int, G, curve_p))

C6_Witness ==
    /\ pc = "s_returned"
    /\ privkey_int \in 2..(curve_n - 1)
    /\ z % curve_n # 0
    /\ s # s_raw(z, k, r, privkey_int)

AfterSighash == AfterNonce \cup {"s_sighash"}

\* the preimage of plain SIGHASH_ALL for the transaction t, chunk by chunk;
\* the outpoint and the value are those the caller names
ExpectedPreimage(t) ==
    << [h |-> "raw", d |-> t.version],
       [h |-> "double_sha256",
        d |-> Flatten([i \in 1..Len(t.inputs) |->
                 Reverse(t.inputs[i].txid) \o to_bytes_le(t.inputs[i].vout, 4)])],
       [h |-> "double_sha256",
        d |-> Flatten([i \in 1..Len(t.inputs) |-> t.inputs[i].sequence])],
       [h |-> "raw",
        d |-> Reverse(prev_txid) \o to_bytes_le(prev_vout, 4)
                \o <<25, 118, 169, 20>>],
       [h |-> "hash160", d |-> privkey_to_pubkey(privkey_int)],
       [h |-> "raw",
        d |-> <<136, 172>> \o to_bytes_le(prev_value, 8)
                \o t.inputs[input_index + 1].sequence],
       [h |-> "double_sha256",
        d |-> Flatten([i \in 1..Len(t.outputs) |-> EncodeOutput(t.outputs[i])])],
       [h |-> "raw", d |-> t.locktime \o <<1, 0, 0, 0>>] >>

C8_AnyoneCanPay ==
    (pc \in Returned /\ sighash_flag = 129)
        => /\ preimage[2] = [h |-> "double_sha256",
                             d |-> Reverse(prev_txid) \o to_bytes_le(prev_vout, 4)]
           /\ preimage[3] = [h |-> "raw",
                             d |-> Zeros(32) \o Reverse(prev_txid)
                                     \o to_bytes_le(prev_vout, 4)
                                     \o <<25, 118, 169, 20>>]
           /\ preimage[Len(preimage)].d
                 = DecodeTx(tx_hex).locktime \o <<129, 0, 0, 0>>
           /\ WitnessSignature(signed_tx, input_index)
                 [Len(WitnessSignature(signed_tx, input_index))] = 129

\* the outputs hashOutputs commits to: the data of the seventh chunk of the
\* preimage
CommittedOutputs == preimage[7].d

\* C9: the outputs serialized in the final transaction are, in order, value
\* and scriptPubKey, the outputs committed by hashOutputs when the local
\* input was signed.
C9_OutputsFrozen ==
    /\ pc \in Returned
         => /\ DecodeTx(signed_tx).ok
            /\ Flatten([i \in 1..Len(DecodeTx(signed_tx).outputs) |->
                          EncodeOutput(DecodeTx(signed_tx).outputs[i])])
                 = CommittedOutputs
            /\ DecodeTx(tx_hex).ok
                 => DecodeTx(signed_tx).outputs = DecodeTx(tx_hex).outputs
    /\ pc = "done" => DecodeTx(final_hex).outputs = signed_outputs

C9_Witness ==
    /\ pc = "s_returned"
    /\ Len(DecodeTx(signed_tx).outputs) = 2
    /\ DecodeTx(signed_tx).outputs[1] # DecodeTx(signed_tx).outputs[2]

\* the last n bytes of a byte string
LastBytes(data, n) == SubSeq(data, Len(data) - n + 1, Len(data))

\* C10: the witness stack written for the commit input is COMMIT_WITNESS:
\* three elements, in order, byte for byte, whatever the funding input and
\* its witness are.
C10_ForeignWitness ==
    /\ pc \in {"verify", "done", "verify_failed"}
         => /\ LastBytes(final_hex, Len(EncodeStack(COMMIT_WITNESS)) + 4)
                 = EncodeStack(COMMIT_WITNESS) \o <<0, 0, 0, 0>>
            /\ DecodeTx(final_hex).ok
                 => DecodeTx(final_hex).witness[2] = COMMIT_WITNESS
    /\ pc = "bt_returned"
         => /\ DecodeTx(returned_hex).ok
            /\ DecodeTx(returned_hex).witness[2] = COMMIT_WITNESS

C10_Witness ==
    /\ pc = "done"
    /\ txid # COMMIT_TXID
    /\ DecodeTx(final_hex).witness[1] = <<SigA, WALLET_PUBKEY>>
    /\ Len(DecodeTx(final_hex).witness[2][2]) = 927

\* the rank of the signing state of the input sign_segwit_input signs:
\* 0 Unsigned, 1 SighashComputed (the sighash exists), 2 Signed (r and s
\* exist), 3 WitnessAttached (the transaction with its witness exists)
LocalRank ==
    IF signed_tx # <<>> THEN 3
    ELSE IF r # 0 /\ s # 0 THEN 2
    ELSE IF sighash # <<>> THEN 1
    ELSE 0

\* the inputs of the transaction handed to sign_segwit_input
SignInputs == 1..Len(DecodeTx(tx_hex).inputs)

\* input i (from 1) of the returned transaction carries a witness
Attached(i) == DecodeTx(signed_tx).witness[i] # <<>>

\* the stack main of build_reveal_tx.py writes for input i of the final
\* transaction
FinalStack(i) == IF i = 1 THEN funding_witness ELSE COMMIT_WITNESS

\* C11: the locally signed input moves through Unsigned, SighashComputed,
\* Signed, WitnessAttached one state at a time and never back, its witness is
\* filled once, an input that came with a witness keeps it, and a transaction
\* is serialized for output only when every input is at WitnessAttached.
C11_InputStateMachine ==
    /\ [][/\ LocalRank' \in {LocalRank, LocalRank + 1}
          /\ signed_tx # <<>> => signed_tx' = signed_tx
          /\ final_hex # <<>> => final_hex' = final_hex]_vars
    /\ [](signed_tx # <<>> => \A i \in SignInputs : Attached(i))
    /\ [](final_hex # <<>> => \A i \in 1..2 : FinalStack(i) # <<>>)

\* marker 0x00 and flag 0x01 follow the version
HasMarker(data) == Slice(data, 4, 6) = <<0, 1>>

\* a transaction that decodes has marker and flag exactly when one of its
\* stacks is non-empty
MarkerMatchesWitness(data) ==
    /\ DecodeTx(data).ok
    /\ HasMarker(data) <=> HasWitness(DecodeTx(data))

\* C12: a serialized transaction carries marker and flag if and only if one
\* of its inputs has a non-empty witness stack.
C12_MarkerIffWitness ==
    /\ signed_tx # <<>> => MarkerMatchesWitness(signed_tx)
    /\ returned_hex # <<>> => MarkerMatchesWitness(returned_hex)
    /\ final_hex # <<>>
         => /\ HasMarker(final_hex) <=> \E i \in 1..2 : FinalStack(i) # <<>>
            /\ DecodeTx(final_hex).ok => MarkerMatchesWitness(final_hex)

C12_Witness ==
    /\ pc = "s_returned"
    /\ ~HasMarker(tx_hex)
    /\ HasMarker(signed_tx)
    /\ HasWitness(DecodeTx(signed_tx))

\* C13: in every transaction the builder emits, the witness element count
\* written for an input is the number of length-prefixed elements that
\* follow it, whatever the funding witness is: the emitted bytes decode, and
\* decode to the stacks that were written.
C13_WitnessCount ==
    /\ printed_final # <<>>
         => /\ DecodeTx(printed_final).ok
            /\ DecodeTx(printed_final).witness = <<funding_witness, COMMIT_WITNESS>>
    /\ returned_hex # <<>>
         => /\ DecodeTx(returned_hex).ok
            /\ Len(DecodeTx(returned_hex).witness[2]) = 3

\* the outpoint of a decoded input
Outpoint(inp) == <<inp.txid, inp.vout>>

\* the outpoints of the inputs of a transaction are pairwise distinct
DistinctOutpoints(t) ==
    \A i, j \in 1..Len(t.inputs) :
        i # j => Outpoint(t.inputs[i]) # Outpoint(t.inputs[j])

\* C14: the inputs of a produced transaction have pairwise distinct
\* (txid, vout); a build funded by the commit outpoint produces nothing.
C14_UniqueOutpoints ==
    /\ returned_hex # <<>> => DistinctOutpoints(DecodeTx(returned_hex))
    /\ final_hex # <<>> /\ DecodeTx(final_hex).ok
         => DistinctOutpoints(DecodeTx(final_hex))
    /\ (txid = COMMIT_TXID /\ vout = 0)
         => (returned_hex = <<>> /\ final_hex = <<>>)

\* the bytes a varint with this prefix byte takes
VarintDemand(b) == IF b < 253 THEN 1 ELSE IF b = 253 THEN 3 ELSE IF b = 254 THEN 5 ELSE 9

\* fewer bytes remain in data from off than the varint there demands
ShortVarint(data, off) ==
    \/ off >= Len(data)
    \/ Len(data) - off < VarintDemand(data[off + 1])

\* C20: decode_varint fails, giving no value and size, wherever fewer bytes
\* remain than the prefix byte demands; a parse that met such a varint
\* produces no signed transaction.
C20_ShortVarintFails ==
    /\ pc = "s_start"
         => \A off \in 0..Len(tx_hex) :
               ShortVarint(tx_hex, off) => ~decode_varint(tx_hex, off).ok
    /\ (parsed # <<>> /\ signed_tx # <<>>) => ~parsed.short

\* the point the key of the wallet stands for, compressed
DerivedPubkey == Raw(privkey_to_pubkey(bytes_mod(wallet_key, curve_n)))

\* C15: a public key returned by the derivation is the compressed encoding
\* of privkey * G, whether or not the elliptic-curve module is available;
\* no substitute is returned when the point cannot be computed.
C15_NoInsecureFallback ==
    wallet_pubkey # <<>> => wallet_pubkey = DerivedPubkey

\* a 32-byte scalar that is zero or not below the group order
OutOfRange(key) ==
    \/ all_zero(key)
    \/ ~all_zero(SubSeq(key, 1, Len(key) - 1))
    \/ key[Len(key)] >= curve_n

\* C16: for a private key that is zero or not below the group order, no
\* public key, address or WIF is produced by the wallet generator and no
\* signed transaction by the signer.
C16_OutOfRangeRejected ==
    /\ (wallet_key # <<>> /\ OutOfRange(wallet_key))
         => (wallet_pubkey = <<>> /\ wallet_address = <<>> /\ wallet_wif = <<>>)
    /\ (tx_hex # <<>> /\ (privkey_int = 0 \/ privkey_int >= curve_n))
         => signed_tx = <<>>

\* BECH32_CHARSET.index(char), from 0
charset_index(char) == (CHOOSE i \in 1..32 : BECH32_CHARSET[i] = char) - 1

\* the 5-bit values of the characters of an address after hrp + '1'
AddressValues(address, hrp) ==
    [i \in 1..(Len(address) - Len(hrp) - 1) |->
       charset_index(address[Len(hrp) + 1 + i])]

PolymodOf(address, hrp) ==
    bech32_polymod(bech32_hrp_expand(hrp) \o AddressValues(address, hrp))

\* C17: the checksum the encoder appends makes the polymod of the expanded
\* prefix and the data 1 for witness version 0, and the bech32m constant
\* 0x2bc830a3 for a witness version of 1 or more.
C17_ChecksumConstant ==
    /\ codec_address # <<>>
         => PolymodOf(codec_address, codec_hrp)
              = (IF codec_witver = 0 THEN 1 ELSE 734539939)
    /\ wallet_address # <<>> => PolymodOf(wallet_address, <<116, 98>>) = 1

\* C18: convertbits(convertbits(b, 8, 5, pad), 5, 8, pad) begins with the
\* bytes of b, followed by at most one byte, which is zero; every 5-bit
\* group lies in 0..31.
C18_ConvertRoundTrip ==
    pc \in {"c_converted", "c_encoded", "c_base58"} =>
      /\ \A i \in 1..Len(codec_groups) : codec_groups[i] \in 0..31
      /\ Len(codec_back) \in {Len(codec_bytes), Len(codec_bytes) + 1}
      /\ SubSeq(codec_back, 1, Len(codec_bytes)) = codec_bytes
      /\ Len(codec_back) > Len(codec_bytes) => codec_back[Len(codec_back)] = 0

\* two bytes with bits in the padded group, converted and back with the
\* extra byte
C18_Witness ==
    /\ pc = "c_converted"
    /\ codec_bytes = <<129, 255>>
    /\ codec_groups = <<16, 7, 31, 16>>
    /\ codec_back = <<129, 255, 0>>

\* five bytes fill eight groups, and no byte is added
C18_WitnessExact ==
    /\ pc = "c_converted"
    /\ Len(codec_bytes) = 5 /\ codec_bytes[5] = 255
    /\ Len(codec_groups) = 8
    /\ codec_back = codec_bytes

\* C19: wif_to_privkey(generate_wif(k)) is k for every 32-byte key and
\* either prefix, and the bytes decoded from base58_encode(p) are p for a
\* payload p that begins with zero bytes.
C19_WifRoundTrip ==
    /\ pc = "w_loaded" => (loaded_key.ok /\ loaded_key.privkey = wallet_key)
    /\ pc = "c_base58" => codec_decoded = codec_bytes

\* a mainnet WIF of a key with two zero bytes in front, decoded
C19_Witness ==
    /\ pc = "w_loaded"
    /\ ~testnet
    /\ wallet_key[1] = 0 /\ wallet_key[2] = 0 /\ wallet_key[3] # 0
    /\ Len(wallet_wif) = 52
    /\ loaded_key.privkey = wallet_key

\* a payload of zero bytes and a last byte, encoded with leading '1's
C19_WitnessZeros ==
    /\ pc = "c_base58"
    /\ Len(codec_bytes) = 3 /\ codec_bytes[1] = 0 /\ codec_bytes[2] = 0
    /\ codec_bytes[3] = 255
    /\ codec_base58[1] = 49 /\ codec_base58[2] = 49
    /\ codec_decoded = codec_bytes

\* the other serialization of the transaction that data decodes to: without
\* marker, flag and witness section if data has them, with them if not
Twin(data) ==
    IF HasMarker(data)
    THEN EncodeTx([DecodeTx(data) EXCEPT
                     !.witness = [i \in 1..Len(DecodeTx(data).inputs) |-> <<>>]],
                  FALSE)
    ELSE EncodeTx([DecodeTx(data) EXCEPT
                     !.witness = [i \in 1..Len(DecodeTx(data).inputs) |->
                                    <<SigA, WALLET_PUBKEY>>]],
                  TRUE)

\* what sign_segwit_input keeps of a parse
ParsedFields(ptx) ==
    << ptx.ok, ptx.version, ptx.num_inputs, ptx.inputs, ptx.num_outputs,
       ptx.outputs, ptx.outputs_raw, ptx.locktime >>

\* C21: for a transaction with an input, sign_segwit_input does the same on
\* the serialization without marker, flag and witness section as on the one
\* with them: the same parse, the same preimage (so the same digests) and
\* the same signed transaction. Each value is compared at the step that has
\* just produced it; no later step changes it.
C21_WitnessSectionOptional ==
    (/\ pc \in {"s_start", "s_parsed", "s_sighash", "s_returned"}
     /\ DecodeTx(tx_hex).ok
     /\ Len(DecodeTx(tx_hex).inputs) > 0) =>
      /\ pc = "s_start" =>
           /\ HasMarker(Twin(tx_hex)) # HasMarker(tx_hex)
           /\ ParsedFields(parse_tx(Twin(tx_hex)))
                 = ParsedFields(parse_tx(tx_hex))
      /\ pc = "s_parsed" =>
           ParsedFields(parsed) = ParsedFields(parse_tx(Twin(tx_hex)))
      /\ pc = "s_sighash" =>
           preimage = bip143_preimage(parse_tx(Twin(tx_hex)), input_index,
                                      prev_txid, prev_vout, prev_value,
                                      privkey_to_pubkey(privkey_int))
      /\ pc = "s_returned" =>
           signed_tx = signed_transaction(parse_tx(Twin(tx_hex)), input_index,
                                          der_signature(r, s),
                                          privkey_to_pubkey(privkey_int))

\* a two-input transaction given without a witness section is signed, and
\* its twin carries marker, flag and stacks
C21_Witness ==
    /\ pc = "s_returned"
    /\ ~HasMarker(tx_hex)
    /\ Len(parsed.inputs) = 2
    /\ HasMarker(Twin(tx_hex))
    /\ Len(Twin(tx_hex)) > Len(tx_hex) + 2
    /\ signed_tx # <<>>

\* C22: two runs of the build at once each end as they would alone: a run
\* that saved its transaction finds its own final hex in the file it wrote,
\* whatever the other run did in between.
C22_RunsIndependent ==
    pc = "pair" =>
        \A p \in Runs :
            builds[p].pc = "done" => tmp_file = builds[p].final_hex

\* the inputs whose witness the call does not sign (from 1)
OtherInputs(t) == { i \in 1..Len(t.inputs) : i # input_index + 1 }

\* C23: the returned transaction has the version, the inputs (outpoint,
\* scriptSig, sequence, in order), the outputs and the locktime of the given
\* transaction, and every input other than input_index keeps the witness
\* stack it came with.
C23_OnlyWitnessChanges ==
    (pc \in Returned /\ DecodeTx(tx_hex).ok)
        => /\ DecodeTx(signed_tx).ok
           /\ DecodeTx(signed_tx).version = DecodeTx(tx_hex).version
           /\ DecodeTx(signed_tx).inputs = DecodeTx(tx_hex).inputs
           /\ DecodeTx(signed_tx).outputs = DecodeTx(tx_hex).outputs
           /\ DecodeTx(signed_tx).locktime = DecodeTx(tx_hex).locktime
           /\ \A i \in OtherInputs(DecodeTx(tx_hex)) :
                  DecodeTx(signed_tx).witness[i] = DecodeTx(tx_hex).witness[i]

\* the outpoint of the preimage: the bytes of its fourth chunk before the
\* first four bytes of the scriptCode
CommittedOutpoint == SubSeq(preimage[4].d, 1, Len(preimage[4].d) - 4)

\* the sequence of the preimage: the sixth chunk holds the last two bytes of
\* the scriptCode, the value and the sequence
CommittedSequence == SubSeq(preimage[6].d, 11, 14)

\* the 36 bytes of the outpoint of a decoded input
OutpointBytes(inp) == Reverse(inp.txid) \o to_bytes_le(inp.vout, 4)

\* C24: for a call that returns, the outpoint of the preimage is the 36 bytes
\* of the outpoint of input input_index of the given transaction, so one of
\* those under hashPrevouts, and the sequence of the preimage is that input's.
C24_OutpointCommitted ==
    (pc \in Returned /\ DecodeTx(tx_hex).ok)
        => /\ CommittedOutpoint
                 = OutpointBytes(DecodeTx(tx_hex).inputs[input_index + 1])
           /\ \E i \in 1..Len(DecodeTx(tx_hex).inputs) :
                  CommittedOutpoint
                      = SubSeq(preimage[2].d, 36 * i - 35, 36 * i)
           /\ CommittedSequence
                 = DecodeTx(tx_hex).inputs[input_index + 1].sequence

\* the sequence alone: it is read from the parsed input
C24_SequenceCommitted ==
    (pc \in Returned /\ DecodeTx(tx_hex).ok)
        => CommittedSequence
               = DecodeTx(tx_hex).inputs[input_index + 1].sequence

\* the frame without scriptSig and foreign witness stacks
C23_FieldsKept ==
    (pc \in Returned /\ DecodeTx(tx_hex).ok)
        => /\ DecodeTx(signed_tx).ok
           /\ DecodeTx(signed_tx).version = DecodeTx(tx_hex).version
           /\ \A i \in 1..Len(DecodeTx(tx_hex).inputs) :
                  /\ Outpoint(DecodeTx(signed_tx).inputs[i])
                        = Outpoint(DecodeTx(tx_hex).inputs[i])
                  /\ DecodeTx(signed_tx).inputs[i].sequence
                        = DecodeTx(tx_hex).inputs[i].sequence
           /\ Len(DecodeTx(signed_tx).inputs) = Len(DecodeTx(tx_hex).inputs)
           /\ DecodeTx(signed_tx).outputs = DecodeTx(tx_hex).outputs
           /\ DecodeTx(signed_tx).locktime = DecodeTx(tx_hex).locktime

\* the places of the posts called name in a history of posts
PostsOf(history, name) ==
    { i \in 1..Len(history) : history[i].name = name }

\* C25: the reveal (spell) transaction is broadcast only as the second post,
\* after a commit broadcast that was accepted: a result of 64 characters in
\* sign-and-broadcast.py, status 200 in prove-mint-zkusd.py. After an error
\* in signing the commit transaction nothing is broadcast, and neither
\* transaction is broadcast twice in a run.
C25_RevealAfterCommit ==
    /\ PostsOf(broadcast, "commit") \subseteq {1}
    /\ PostsOf(broadcast, "reveal") \subseteq {2}
    /\ Len(broadcast) <= 2
    /\ 2 \in PostsOf(broadcast, "reveal")
         => /\ broadcast[1].tx = signed_tx
            /\ Len(broadcast[1].reply.text) = 64
            /\ broadcast[2].tx = reveal_tx
    /\ pc \in {"s_raised", "m_returned"} => broadcast = <<>>
    /\ PostsOf(posts, "commit") \subseteq {1}
    /\ PostsOf(posts, "spell") \subseteq {2}
    /\ Len(posts) <= 2
    /\ 2 \in PostsOf(posts, "spell") => posts[1].reply.status = 200

\* both transactions were broadcast by sign-and-broadcast.py
C25_Witness ==
    /\ pc = "m_done"
    /\ Len(broadcast) = 2
    /\ broadcast[2].name = "reveal"
    /\ broadcast[1].reply = Accepted

\* both transactions were posted by prove-mint-zkusd.py after the answer Y
C25_WitnessMint ==
    /\ pc = "p_done"
    /\ answer = <<89>>
    /\ Len(posts) = 2
    /\ posts[2].name = "spell"

\* a signing error ended main of sign-and-broadcast.py
C25_WitnessSignError ==
    /\ pc = "m_returned"
    /\ err.kind # ""

====
